---- MODULE Spec2Model ----
(***************************************************************************)
(* slurmctld-operator: the slurm.conf assembly and serialization engine    *)
(* (src/src/charm.py, src/src/interface_slurmd.py,                         *)
(* src/src/slurm_conf_editor.py, src/src/constants.py) and the charm       *)
(* handlers that drive it.                                                 *)
(*                                                                         *)
(* Text.  A Python str is a sequence of tokens.  Each of the characters    *)
(* the code inspects ("=", ",", "#", " ", newline, the double quote) is a  *)
(* token of its own; a maximal run of other characters is one opaque word  *)
(* token ("ClusterName", "6817").  str.split, str.join, str.startswith and *)
(* str.strip are computed on these sequences as Python computes them on    *)
(* characters.                                                             *)
(***************************************************************************)
EXTENDS Integers, Sequences, FiniteSets, TLC

VARIABLES
    config,             \* juju charm configuration (self.config)
    relations,          \* the slurmd relations: the remote application and unit data
    is_leader,          \* self.model.unit.is_leader()
    is_container,       \* result of slurmctld_ops.is_container() on this machine
    slurmdbd,           \* the slurmdbd relation and the host its application publishes
    slurmrestd,         \* whether a slurmrestd relation exists
    hooks,              \* hooks dispatched so far
    stored,             \* StoredState attributes (self._stored)
    slurmctld,          \* the slurmctld service: "active" or "inactive"
    slurm_conf_file,    \* content of slurm.conf
    cgroup_conf_file,   \* content of cgroup.conf
    app_data,           \* this application's data on the relations
    status,             \* self.unit.status
    calls,              \* manager and relation calls made in the current dispatch
    deferred,           \* events deferred for the next dispatch
    exc,                \* the exception that left the running handler, "" if none
    slurm_config,       \* outcome of the last _assemble_slurm_conf call
    slurm_conf,         \* outcome of the last slurm_conf_as_string call
    snap_conf,          \* outcome of the last slurm_conf_as_snap_conf call
    pending,            \* events and calls still to be handled in the current dispatch
    committed,          \* what the framework restores when the dispatch fails
    pc                  \* what has been called so far

vars == <<config, relations, is_leader, is_container, slurmdbd, slurmrestd, hooks,
          stored, slurmctld, slurm_conf_file, cgroup_conf_file, app_data, status, calls,
          deferred, exc, slurm_config, slurm_conf, snap_conf, pending, committed, pc>>

----------------------------------------------------------------------------
(* Python values *)

NL == "\n"
SP == " "
EQ == "="
COMMA == ","
HASH == "#"
QUOTE == "\""

\* str.isspace characters that occur in the texts
Whitespace == {SP, NL, "\t"}

\* an exception leaving a call, and a returned value
Raise(e) == [ok |-> FALSE, exc |-> e]
Return(v) == [ok |-> TRUE, val |-> v]

\* str.split(sep): the pieces between occurrences of sep, at least one piece
split(s, sep) ==
    LET at == SelectSeq([i \in 1..Len(s) |-> i], LAMBDA i : s[i] = sep)
        n == Len(at)
    IN  [k \in 1..(n + 1) |->
            SubSeq(s, IF k = 1 THEN 1 ELSE at[k - 1] + 1,
                      IF k = n + 1 THEN Len(s) ELSE at[k] - 1)]

\* sep.join(items) for a list of str
RECURSIVE join(_, _)
join(sep, items) ==
    IF Len(items) = 0 THEN <<>>
    ELSE IF Len(items) = 1 THEN items[1]
    ELSE items[1] \o <<sep>> \o join(sep, Tail(items))

\* str.startswith(prefix) for a one-character prefix
startswith(s, prefix) == Len(s) > 0 /\ s[1] = prefix

\* str.lstrip(): drop leading whitespace
RECURSIVE lstrip(_)
lstrip(s) == IF Len(s) > 0 /\ s[1] \in Whitespace THEN lstrip(Tail(s)) ELSE s

\* str.rstrip(): drop trailing whitespace
RECURSIVE rstrip(_)
rstrip(s) ==
    IF Len(s) > 0 /\ s[Len(s)] \in Whitespace THEN rstrip(SubSeq(s, 1, Len(s) - 1)) ELSE s

\* str.strip()
strip(s) == rstrip(lstrip(s))

\* dict as an insertion-ordered sequence of <<key, value>> items
keys(d) == [i \in DOMAIN d |-> d[i][1]]
has(d, k) == \E i \in DOMAIN d : d[i][1] = k
get(d, k) == d[CHOOSE i \in DOMAIN d : d[i][1] = k][2]
\* d[k] = v: an existing key keeps its position
put(d, k, v) ==
    IF has(d, k) THEN [i \in DOMAIN d |-> IF d[i][1] = k THEN <<k, v>> ELSE d[i]]
    ELSE Append(d, <<k, v>>)

\* {**a, **b} for dicts held as functions: b wins on a shared key
update(a, b) == b @@ a

----------------------------------------------------------------------------
(* The parameter catalog: dataclass fields in declaration order *)

ParametersFields == <<
    "AccountingStorageBackupHost", "AccountingStorageEnforce", "AccountingStorageExternalHost",
    "AccountingStorageHost", "AccountingStorageParameters", "AccountingStoragePass",
    "AccountingStoragePort", "AccountingStorageTRES", "AccountingStorageType",
    "AccountingStorageUser", "AccountingStoreFlags", "AcctGatherNodeFreq",
    "AcctGatherEnergyType", "AcctGatherInterconnectType", "AcctGatherFilesystemType",
    "AcctGatherProfileType", "AllowSpecResourcesUsage", "AuthAltTypes", "AuthAltParameters",
    "AuthInfo", "AuthType", "BatchStartTimeout", "BcastExclude", "BcastParameters",
    "BurstBufferType", "CliFilterPlugins", "ClusterName", "CommunicationParameters",
    "CheckGhalQuiesce", "DisableIPv4", "EnableIPv6", "NoCtldInAddrAny", "NoInAddrAny",
    "CompleteWait", "CoreSpecPlugin", "CpuFreqDef", "CpuFreqGovernors", "CredType",
    "DebugFlags", "BurstBuffer", "DefCpuPerGPU", "DefMemPerCPU", "DefMemPerGPU",
    "DefMemPerNode", "DependencyParameters", "DisableRootJobs", "EioTimeout",
    "EnforcePartLimits", "Epilog", "EpilogMsgTime", "EpilogSlurmctld",
    "FairShareDampeningFactor", "FederationParameters", "FirstJobId", "GetEnvTimeout",
    "GresTypes", "GroupUpdateForce", "GroupUpdateTime", "GpuFreqDef", "HealthCheckInterval",
    "HealthCheckNodeState", "HealthCheckProgram", "InactiveLimit", "InteractiveStepOptions",
    "JobAcctGatherType", "JobAcctGatherFrequency", "JobAcctGatherParams", "NoShared", "UsePss",
    "OverMemoryKill", "DisableGPUAcct", "JobCompHost", "JobCompLoc", "JobCompParams",
    "JobCompPass", "JobCompPort", "JobCompType", "JobCompUser", "JobContainerType",
    "JobFileAppend", "JobRequeue", "JobSubmitPlugins", "KillOnBadExit", "KillWait",
    "MaxBatchRequeue", "NodeFeaturesPlugins", "LaunchParameters", "Licenses", "LogTimeFormat",
    "MailDomain", "MailProg", "MaxArraySize", "MaxDBDMsgs", "MaxJobCount", "MaxJobId",
    "MaxMemPerCPU", "MaxMemPerNode", "MaxNodeCount", "MaxStepCount", "MaxTasksPerNode",
    "MCSParameters", "MCSPlugin", "MessageTimeout", "MinJobAge", "MpiDefault", "MpiParams",
    "OverTimeLimit", "PluginDir", "PlugStackConfig", "PowerParameters", "PowerPlugin",
    "PreemptMode", "PreemptParameters", "PreemptType", "PreemptExemptTime", "PrEpParameters",
    "PrEpPlugins", "PriorityCalcPeriod", "PriorityDecayHalfLife", "PriorityFavorSmall",
    "PriorityFlags", "PriorityMaxAge", "PriorityParameters", "PrioritySiteFactorParameters",
    "PrioritySiteFactorPlugin", "PriorityType", "PriorityUsageResetPeriod",
    "PriorityWeightAge", "PriorityWeightAssoc", "PriorityWeightFairshare",
    "PriorityWeightJobSize", "PriorityWeightPartition", "PriorityWeightQOS",
    "PriorityWeightTRES", "PrivateData", "ProctrackType", "Prolog", "PrologEpilogTimeout",
    "PrologFlags", "PrologSlurmctld", "PropagatePrioProcess", "PropagateResourceLimits",
    "PropagateResourceLimitsExcept", "RebootProgram", "ReconfigFlags", "KeepPartInfo",
    "KeepPartState", "KeepPowerSaveSettings", "RequeueExit", "RequeueExitHold",
    "ResumeFailProgram", "ResumeProgram", "ResumeRate", "ResumeTimeout", "ResvEpilog",
    "ResvOverRun", "ResvProlog", "ReturnToService", "SchedulerParameters",
    "SchedulerTimeSlice", "SchedulerType", "ScronParameters", "SelectType",
    "SelectTypeParameters", "SlurmctldAddr", "SlurmctldDebug", "SlurmctldHost",
    "SlurmctldLogFile", "SlurmctldParameters", "SlurmctldPidFile", "SlurmctldPort",
    "SlurmctldPrimaryOffProg", "SlurmctldPrimaryOnProg", "SlurmctldSyslogDebug",
    "SlurmctldTimeout", "SlurmdDebug", "SlurmdLogFile", "SlurmdParameters", "SlurmdPidFile",
    "SlurmdPort", "SlurmdSpoolDir", "SlurmdSyslogDebug", "SlurmdTimeout", "SlurmdUser",
    "SlurmSchedLogFile", "SlurmSchedLogLevel", "SlurmUser", "SrunEpilog", "SrunPortRange",
    "SrunProlog", "StateSaveLocation", "SuspendExcNodes", "SuspendExcParts",
    "SuspendExcStates", "SuspendProgram", "SuspendRate", "SuspendTime", "SuspendTimeout",
    "SwitchParameters", "SwitchType", "TaskEpilog", "TaskPlugin", "TaskPluginParam", "Cores",
    "Sockets", "Threads", "SlurmdOffSpec", "Verbose", "Autobind", "TaskProlog", "TCPTimeout",
    "TmpFS", "TopologyParam", "Dragonfly", "RoutePart", "SwitchAsNodeRank", "RouteTree",
    "TopoOptional", "TopologyPlugin", "TrackWCKey", "TreeWidth", "UnkillableStepProgram",
    "UnkillableStepTimeout", "UsePAM", "VSizeFactor", "WaitTime", "X11Parameters"
>>

PartitionFields == <<
    "PartitionName", "AllocNodes", "AllowAccounts", "AllowGroups", "AllowQos", "Alternate",
    "CpuBind", "Default", "DefaultTime", "DefCpuPerGPU", "DefMemPerCPU", "DefMemPerGPU",
    "DefMemPerNode", "DenyAccounts", "DenyQos", "DisableRootJobs", "ExclusiveUser",
    "GraceTime", "Hidden", "LLN", "MaxCPUsPerNode", "MaxCPUsPerSocket", "MaxMemPerCPU",
    "MaxMemPerNode", "MaxNodes", "MaxTime", "MinNodes", "Nodes", "OverSubscribe",
    "OverTimeLimit", "PowerDownOnIdle", "PreemptMode", "PriorityJobFactor", "PriorityTier",
    "QOS", "ReqResv", "ResumeTimeout", "RootOnly", "SelectTypeParameters", "State",
    "SuspendTime", "SuspendTimeout", "TRESBillingWeights"
>>

NodeFields == <<
    "NodeName", "NodeHostname", "NodeAddr", "BcastAddr", "Boards", "CoreSpecCount",
    "CoresPerSocket", "CpuBind", "CPUs", "CpuSpecList", "Features", "Gres", "MemSpecLimit",
    "Port", "Procs", "RealMemory", "Reason", "Sockets", "SocketsPerBoard", "State",
    "ThreadsPerCore", "TmpDisk", "Weight"
>>

DownNodesFields == <<"State", "Reason", "DownNodes">>

Range(s) == {s[i] : i \in DOMAIN s}

----------------------------------------------------------------------------
(* constants.py *)

SLURM_SNAP_COMMON_PATH == "/var/snap/slurm/common"
SLURM_USER == "slurm"

\* a dict literal with str keys, as the function from its keys to its values
dict(items) == [k \in {<<items[i][1]>> : i \in DOMAIN items} |-> get(items, k[1])]

CHARM_MAINTAINED_SLURM_CONF_PARAMETERS == dict(<<
    <<"AuthAltParameters", <<"jwt_key", EQ, "/var/spool/slurmctld/jwt_hs256.key">> >>,
    <<"AuthAltTypes", <<"auth/jwt">> >>,
    <<"AuthInfo", <<"/var/snap/slurm/common/run/munge/munged.socket.2">> >>,
    <<"AuthType", <<"auth/munge">> >>,
    <<"GresTypes", <<"gpu">> >>,
    <<"HealthCheckInterval", <<"600">> >>,
    <<"HealthCheckNodeState", <<"ANY", COMMA, "CYCLE">> >>,
    <<"HealthCheckProgram", <<"/usr/sbin/omni-nhc-wrapper">> >>,
    <<"MailProg", <<"/usr/bin/mail.mailutils">> >>,
    <<"PluginDir", <<"/usr/lib/x86_64-linux-gnu/slurm-wlm">> >>,
    <<"PlugStackConfig", <<"/etc/slurm/plugstack.conf.d/plugstack.conf">> >>,
    <<"SelectType", <<"select/cons_tres">> >>,
    <<"SlurmctldPort", <<"6817">> >>,
    <<"SlurmdPort", <<"6818">> >>,
    <<"StateSaveLocation", <<"/var/spool/slurmctld">> >>,
    <<"SlurmdSpoolDir", <<"/var/spool/slurmd">> >>,
    <<"SlurmctldParameters", <<"enable_configless">> >>,
    <<"SlurmctldLogFile", <<"/var/snap/slurm/common/var/log/slurm/slurmctld.log">> >>,
    <<"SlurmdLogFile", <<"/var/snap/slurm/common/var/log/slurm/slurmctld.log">> >>,
    <<"SlurmdPidFile", <<"/run/slurmd.pid">> >>,
    <<"SlurmctldPidFile", <<"/run/slurmctld.pid">> >>,
    <<"SlurmUser", <<SLURM_USER>> >>,
    <<"SlurmdUser", <<"root">> >>,
    <<"RebootProgram", <<QUOTE, "/usr/sbin/reboot", SP, "--reboot", QUOTE>> >> >>)

----------------------------------------------------------------------------
(* charm.py: properties read by the assembler *)

\* self.config.get(option): the value, or None when the option is not set
is_set(option) == option \in DOMAIN config

\* SlurmctldCharm.cluster_name
cluster_name ==
    IF is_set("cluster-name") /\ config["cluster-name"] # <<>>
    THEN config["cluster-name"]
    ELSE <<"charmedhpc">>

\* SlurmctldCharm.hostname: the machine's host name
hostname == <<"slurmctld-0">>

\* SlurmctldCharm._slurmd_ingress_address: the address of the slurmd binding
_slurmd_ingress_address == <<"10.0.0.10">>

----------------------------------------------------------------------------
(* interface_slurmd.py: the inventory read from the slurmd relations *)

\* json.loads of a relation value: t = "bad" is text that is not JSON
json_loads(text) == IF text.t = "bad" THEN Raise("JSONDecodeError") ELSE Return(text.v)

\* list(names): every name, as often as it was appended
list_keeping_duplicates(names, order) == names

\* list(set(names)): the distinct names in the iteration order of this process's set
list_set(names, order) == SelectSeq(order, LAMBDA n : n \in Range(names))

\* Slurmd._get_partition_from_relation
_get_partition_from_relation(relation) ==
    IF relation.partition.t = "none" THEN Return(<<>>) ELSE json_loads(relation.partition)

\* _get_node_from_relation taking text that is not JSON for no node
_get_node_from_relation_passing_malformed(node) ==
    IF node.t \in {"none", "bad"} THEN Return(<<>>) ELSE json_loads(node)

\* Slurmd._get_node_from_relation
_get_node_from_relation(node) ==
    IF node.t = "none" THEN Return(<<>>) ELSE json_loads(node)

\* unit_step taking every node for a new node
unit_step_all_new(acc, node_json) ==
    IF ~acc.ok THEN acc
    ELSE LET r == _get_node_from_relation(node_json) IN
         IF ~r.ok THEN r
         ELSE LET node == r.val IN
              IF DOMAIN node = {} THEN acc
              ELSE IF "node_parameters" \notin DOMAIN node
                      \/ DOMAIN node["node_parameters"] = {} THEN acc
              ELSE LET node_config == node["node_parameters"] IN
                   IF "NodeName" \notin DOMAIN node_config THEN Raise("KeyError")
                   ELSE LET node_name == node_config["NodeName"] IN
                        [acc EXCEPT
                            !.partition_nodes = Append(@, node_name),
                            !.nodes = put(@, node_name,
                                [k \in DOMAIN node_config \ {"NodeName"} |-> node_config[k]]),
                            !.new_nodes = Append(@, node_name)]

\* one iteration of `for unit in relation.units`
unit_step(acc, node_json) ==
    IF ~acc.ok THEN acc
    ELSE LET r == _get_node_from_relation(node_json) IN
         IF ~r.ok THEN r
         ELSE LET node == r.val IN
              IF DOMAIN node = {} THEN acc
              ELSE IF "node_parameters" \notin DOMAIN node
                      \/ DOMAIN node["node_parameters"] = {} THEN acc
              ELSE LET node_config == node["node_parameters"] IN
                   IF "NodeName" \notin DOMAIN node_config THEN Raise("KeyError")
                   ELSE LET node_name == node_config["NodeName"] IN
                        [acc EXCEPT
                            !.partition_nodes = Append(@, node_name),
                            !.nodes = put(@, node_name,
                                [k \in DOMAIN node_config \ {"NodeName"} |-> node_config[k]]),
                            !.new_nodes =
                                IF "new_node" \in DOMAIN node /\ node["new_node"]
                                THEN Append(@, node_name) ELSE @]

RECURSIVE units_loop(_, _)
units_loop(acc, units) ==
    IF Len(units) = 0 THEN acc ELSE units_loop(unit_step(acc, units[1]), Tail(units))

\* partition_step stamping Default=YES on every partition
partition_step_stamping_all(acc, relation, item, order) ==
    IF ~acc.ok THEN acc
    ELSE LET partition_name == item[1]
             partition_parameters == item[2]
             u == units_loop([acc EXCEPT !.partition_nodes = <<>>], relation.units)
         IN  IF ~u.ok THEN u
             ELSE LET with_nodes == update(partition_parameters,
                                           [k \in {"Nodes"} |-> list_set(u.partition_nodes, order)])
                      stamped == update(with_nodes, [k \in {"Default"} |-> <<"YES">>])
                  IN  [u EXCEPT !.partitions = put(@, partition_name, stamped)]

\* one iteration of `for partition_name, partition_parameters in partition_as_dict.items()`
partition_step(acc, relation, item, order) ==
    IF ~acc.ok THEN acc
    ELSE LET partition_name == item[1]
             partition_parameters == item[2]
             u == units_loop([acc EXCEPT !.partition_nodes = <<>>], relation.units)
         IN  IF ~u.ok THEN u
             ELSE LET with_nodes == update(partition_parameters,
                                           [k \in {"Nodes"} |-> list_set(u.partition_nodes, order)])
                      stamped ==
                          IF is_set("default-partition")
                             /\ config["default-partition"] = partition_name
                          THEN update(with_nodes, [k \in {"Default"} |-> <<"YES">>])
                          ELSE with_nodes
                  IN  [u EXCEPT !.partitions = put(@, partition_name, stamped)]

RECURSIVE items_loop(_, _, _, _)
items_loop(acc, relation, items, order) ==
    IF Len(items) = 0 THEN acc
    ELSE items_loop(partition_step(acc, relation, items[1], order), relation, Tail(items), order)

\* relation_step reading the units of a relation that has no partition yet
relation_step_keeping_units(acc, relation, order) ==
    IF ~acc.ok THEN acc
    ELSE LET p == _get_partition_from_relation(relation) IN
         IF ~p.ok THEN p
         ELSE IF Len(p.val) = 0 THEN units_loop(acc, relation.units)
         ELSE items_loop(acc, relation, p.val, order)

\* one iteration of `for relation in relations`
relation_step(acc, relation, order) ==
    IF ~acc.ok THEN acc
    ELSE LET p == _get_partition_from_relation(relation) IN
         IF ~p.ok THEN p
         ELSE IF Len(p.val) = 0 THEN acc
         ELSE items_loop(acc, relation, p.val, order)

RECURSIVE relations_loop(_, _, _)
relations_loop(acc, rels, order) ==
    IF Len(rels) = 0 THEN acc
    ELSE relations_loop(relation_step(acc, rels[1], order), Tail(rels), order)

\* Slurmd.get_new_nodes_and_nodes_and_partitions
get_new_nodes_and_nodes_and_partitions(order) ==
    LET acc == relations_loop(
                   [ok |-> TRUE, partitions |-> <<>>, nodes |-> <<>>, new_nodes |-> <<>>,
                    partition_nodes |-> <<>>],
                   relations, order)
    IN  IF ~acc.ok THEN acc
        ELSE LET new_node_down_nodes ==
                     IF Len(acc.new_nodes) > 0
                     THEN << [DownNodes |-> list_set(acc.new_nodes, order),
                              State |-> <<"DOWN">>,
                              Reason |-> <<"New", SP, "node.">>] >>
                     ELSE <<>>
             IN  Return(dict(<< <<"down_nodes", new_node_down_nodes>>,
                                <<"nodes", acc.nodes>>,
                                <<"partitions", acc.partitions>> >>))

----------------------------------------------------------------------------
(* charm.py: the assembler *)

\* the parse of one surviving line after another: IndexError on a line without "=",
\* else the mapping in which a later line replaces an earlier one of the same key
parse_lines(lines) ==
    IF \E i \in DOMAIN lines : Len(split(lines[i], EQ)) < 2
    THEN Raise("IndexError")
    ELSE LET last(k) == CHOOSE i \in DOMAIN lines :
                            /\ split(lines[i], EQ)[1] = k
                            /\ \A j \in DOMAIN lines :
                                   split(lines[j], EQ)[1] = k => j <= i
         IN  Return([k \in {split(lines[i], EQ)[1] : i \in DOMAIN lines}
                        |-> split(lines[last(k)], EQ)[2]])

\* _get_user_supplied_parameters without the test for a leading "#"
_get_user_supplied_parameters_keeping_comments ==
    IF ~is_set("slurm-conf-parameters") \/ config["slurm-conf-parameters"] = <<>>
    THEN Return(<<>>)
    ELSE parse_lines(SelectSeq(split(config["slurm-conf-parameters"], NL),
                               LAMBDA line : strip(line) # <<>>))

\* _get_user_supplied_parameters passing over the lines without "="
_get_user_supplied_parameters_skipping_malformed ==
    IF ~is_set("slurm-conf-parameters") \/ config["slurm-conf-parameters"] = <<>>
    THEN Return(<<>>)
    ELSE parse_lines(SelectSeq(split(config["slurm-conf-parameters"], NL),
                               LAMBDA line : /\ ~startswith(line, HASH)
                                             /\ strip(line) # <<>>
                                             /\ Len(split(line, EQ)) >= 2))

\* SlurmctldCharm._get_user_supplied_parameters
_get_user_supplied_parameters ==
    IF ~is_set("slurm-conf-parameters") \/ config["slurm-conf-parameters"] = <<>>
    THEN Return(<<>>)
    ELSE parse_lines(SelectSeq(split(config["slurm-conf-parameters"], NL),
                               LAMBDA line : ~startswith(line, HASH) /\ strip(line) # <<>>))

\* _assemble_slurm_conf._assemble_slurmctld_parameters
_assemble_slurmctld_parameters(user_supplied_parameters) ==
    LET slurmctld_param_config ==
            split(CHARM_MAINTAINED_SLURM_CONF_PARAMETERS[<<"SlurmctldParameters">>], COMMA)
        \* the assignment expression takes the whole comparison: the name holds a bool
        user_supplied_slurmctld_parameters ==
            (IF <<"SlurmctldParameters">> \in DOMAIN user_supplied_parameters
             THEN user_supplied_parameters[<<"SlurmctldParameters">>] ELSE <<>>) # <<>>
    IN  IF user_supplied_slurmctld_parameters
        THEN Raise("AttributeError")    \* True.split(",")
        ELSE Return(join(COMMA, slurmctld_param_config))

\* the dict literal with the user's mapping unpacked first
slurm_conf_literal_user_first(computed, accounting_params, charm_maintained, slurmd_parameters, user_supplied_parameters) ==
    update(update(update(update(user_supplied_parameters, computed), accounting_params),
                  charm_maintained), slurmd_parameters)

\* the dict literal of _assemble_slurm_conf: the five computed entries, then the
\* unpacked mappings in the order written, a later one replacing an earlier key
slurm_conf_literal(computed, accounting_params, charm_maintained, slurmd_parameters, user_supplied_parameters) ==
    update(update(update(update(computed, accounting_params), charm_maintained),
                  slurmd_parameters), user_supplied_parameters)

\* accounting_params filled in whether or not a host is stored
accounting_params_always(slurmdbd_host) ==
    dict(<<
        <<"AccountingStorageHost", slurmdbd_host>>,
        <<"AccountingStorageType", <<"accounting_storage/slurmdbd">> >>,
        <<"AccountingStoragePass", <<"/var/run/munge/munge.socket.2">> >>,
        <<"AccountingStoragePort", <<"6819">> >> >>)

\* the accounting_params of _assemble_slurm_conf
accounting_params_of(slurmdbd_host) ==
    IF slurmdbd_host # <<>>
    THEN dict(<<
        <<"AccountingStorageHost", slurmdbd_host>>,
        <<"AccountingStorageType", <<"accounting_storage/slurmdbd">> >>,
        <<"AccountingStoragePass", <<"/var/run/munge/munge.socket.2">> >>,
        <<"AccountingStoragePort", <<"6819">> >> >>)
    ELSE <<>>

\* SlurmctldCharm._assemble_slurm_conf
_assemble_slurm_conf(order) ==
    LET user_supplied_parameters == _get_user_supplied_parameters IN
    IF ~user_supplied_parameters.ok THEN user_supplied_parameters
    ELSE LET slurmd_parameters == get_new_nodes_and_nodes_and_partitions(order) IN
         IF ~slurmd_parameters.ok THEN slurmd_parameters
         ELSE LET slurmctld_parameters ==
                      _assemble_slurmctld_parameters(user_supplied_parameters.val)
              IN  IF ~slurmctld_parameters.ok THEN slurmctld_parameters
                  ELSE LET accounting_params == accounting_params_of(stored.slurmdbd_host)
                           computed == dict(<<
                               <<"ClusterName", cluster_name>>,
                               <<"SlurmctldAddr", _slurmd_ingress_address>>,
                               <<"SlurmctldHost", hostname>>,
                               <<"SlurmctldParameters", slurmctld_parameters.val>>,
                               <<"ProctrackType",
                                 IF is_container THEN <<"proctrack/linuxproc">>
                                 ELSE <<"proctrack/cgroup">> >> >>)
                       IN  Return(slurm_conf_literal(computed, accounting_params,
                                      CHARM_MAINTAINED_SLURM_CONF_PARAMETERS,
                                      slurmd_parameters.val, user_supplied_parameters.val))

----------------------------------------------------------------------------
(* slurm_conf_editor.py: the flat-file renderer *)

SLURM_CONF_SECTION_SEPARATOR == <<NL, NL>>

\* textwrap.dedent: blank lines are emptied, then the longest leading run of
\* blanks common to the other lines is removed from each of them
textwrap_dedent(text) ==
    LET lines == split(text, NL)
        blank(l) == \A i \in DOMAIN l : l[i] \in {SP, "\t"}
        norm == [i \in DOMAIN lines |-> IF blank(lines[i]) THEN <<>> ELSE lines[i]]
        inked == {i \in DOMAIN norm : norm[i] # <<>>}
        \* the leading blanks of an inked line
        indent(l) == CHOOSE n \in 0..Len(l) :
                         /\ \A p \in 1..n : l[p] \in {SP, "\t"}
                         /\ l[n + 1] \notin {SP, "\t"}
        least == CHOOSE n \in {indent(norm[i]) : i \in inked} :
                     \A i \in inked : n <= indent(norm[i])
        common(n) == \A i, j \in inked : \A p \in 1..n : norm[i][p] = norm[j][p]
        margin == IF inked = {} THEN 0
                  ELSE CHOOSE n \in 0..least : common(n) /\ (n = least \/ ~common(n + 1))
    IN  join(NL, [i \in DOMAIN norm |-> SubSeq(norm[i], margin + 1, Len(norm[i]))])

\* dedent
dedent(text) == lstrip(textwrap_dedent(text))

\* conjoin
conjoin(items, join_str) == join(join_str, items)

\* dedent_all
dedent_all(texts, join_str) == conjoin([i \in DOMAIN texts |-> dedent(texts[i])], join_str)

\* f"{k}={v}" for the fields of a dataclass instance that are not None, in
\* declaration order
set_entries(fields, self) ==
    LET set_fields == SelectSeq(fields, LAMBDA k : k \in DOMAIN self)
    IN  [i \in DOMAIN set_fields |-> <<set_fields[i], EQ>> \o self[set_fields[i]]]

\* the dataclass constructors: cls(first, **kwargs) raises TypeError for a keyword
\* that is no field and for a second value of the positional field
construct(fields, first, value, kwargs) ==
    IF \E k \in DOMAIN kwargs : k \notin Range(fields) \/ k = first
    THEN Raise("TypeError")
    ELSE Return(update(kwargs, [k \in {first} |-> value]))

\* Parameters(**slurm_conf) leaving out the keywords that are no field
Parameters_dropping_unknown(kwargs) ==
    Return([k \in {key[1] : key \in DOMAIN kwargs} \cap Range(ParametersFields) |-> kwargs[<<k>>]])

\* Parameters(**slurm_conf)
Parameters(kwargs) ==
    IF \E k \in DOMAIN kwargs : Len(k) # 1 \/ k[1] \notin Range(ParametersFields)
    THEN Raise("TypeError")
    ELSE Return([k \in {key[1] : key \in DOMAIN kwargs} |-> kwargs[<<k>>]])

\* as_slurm_conf_entries with the entries in the reverse of declaration order
Parameters_as_slurm_conf_entries_reversed(self) ==
    LET entries == set_entries(ParametersFields, self)
    IN  join(NL, [i \in DOMAIN entries |-> entries[Len(entries) + 1 - i]])

\* Parameters.as_slurm_conf_entries
Parameters_as_slurm_conf_entries(self) == join(NL, set_entries(ParametersFields, self))

\* Partition(partition, **partitions[partition]); Nodes defaults to []
Partition(partition, kwargs) ==
    construct(PartitionFields, "PartitionName", <<partition>>,
              update([k \in {"Nodes"} |-> <<>>], kwargs))

\* Partition.as_slurm_conf_entry
Partition_as_slurm_conf_entry(self) ==
    LET partition_parameters == [k \in DOMAIN self \ {"PartitionName", "Nodes"} |-> self[k]]
        nodes == self["Nodes"]
    IN  <<"PartitionName", EQ>> \o self["PartitionName"] \o <<SP>>
        \o <<"Nodes", EQ>>
        \o (IF Len(nodes) > 0 THEN join(COMMA, [i \in DOMAIN nodes |-> <<nodes[i]>>])
            ELSE <<QUOTE, QUOTE>>)
        \o <<SP>>
        \o join(SP, set_entries(PartitionFields, partition_parameters))

\* Node(node, **nodes[node])
Node(node, kwargs) == construct(NodeFields, "NodeName", <<node>>, kwargs)

\* as_slurm_conf_entry with the fields in the reverse of declaration order
Node_as_slurm_conf_entry_reversed(self) ==
    LET entries == set_entries(NodeFields, self)
    IN  join(SP, [i \in DOMAIN entries |-> entries[Len(entries) + 1 - i]])

\* Node.as_slurm_conf_entry
Node_as_slurm_conf_entry(self) == join(SP, set_entries(NodeFields, self))

\* DownNodes(**down_node): State and Reason are required
DownNodes(kwargs) ==
    IF \/ \E k \in DOMAIN kwargs : k \notin Range(DownNodesFields)
       \/ ~({"State", "Reason"} \subseteq DOMAIN kwargs)
    THEN Raise("TypeError")
    ELSE Return(update([k \in {"DownNodes"} |-> <<>>], kwargs))

\* DownNodes.as_slurm_conf_entry
DownNodes_as_slurm_conf_entry(self) ==
    <<"DownNodes", EQ>>
    \o join(COMMA, [i \in DOMAIN self["DownNodes"] |-> <<self["DownNodes"][i]>>])
    \o <<SP, "State", EQ>> \o self["State"]
    \o <<SP, "Reason", EQ, QUOTE>> \o self["Reason"] \o <<QUOTE>>

\* sections with the Nodes section ahead of the Partitions section
sections_nodes_first(parameters_entries, partition_entries, node_entries, down_node_entries) == <<
    <<HASH, SP, "Parameters">>,
    parameters_entries,
    SLURM_CONF_SECTION_SEPARATOR,
    <<HASH, SP, "Nodes">>,
    join(NL, node_entries),
    SLURM_CONF_SECTION_SEPARATOR,
    <<HASH, SP, "Partitions">>,
    join(NL, partition_entries),
    SLURM_CONF_SECTION_SEPARATOR,
    <<HASH, SP, "DownNodes">>,
    join(NL, down_node_entries) >>

\* the list slurm_conf_as_string hands to dedent_all
sections(parameters_entries, partition_entries, node_entries, down_node_entries) == <<
    <<HASH, SP, "Parameters">>,
    parameters_entries,
    SLURM_CONF_SECTION_SEPARATOR,
    <<HASH, SP, "Partitions">>,
    join(NL, partition_entries),
    SLURM_CONF_SECTION_SEPARATOR,
    <<HASH, SP, "Nodes">>,
    join(NL, node_entries),
    SLURM_CONF_SECTION_SEPARATOR,
    <<HASH, SP, "DownNodes">>,
    join(NL, down_node_entries) >>

\* slurm_conf_as_string
slurm_conf_as_string(conf) ==
    IF ~({<<"partitions">>, <<"nodes">>, <<"down_nodes">>} \subseteq DOMAIN conf)
    THEN Raise("KeyError")
    ELSE
    LET partitions == conf[<<"partitions">>]
        nodes == conf[<<"nodes">>]
        down_nodes == conf[<<"down_nodes">>]
        partition_objs == [i \in DOMAIN partitions |-> Partition(partitions[i][1], partitions[i][2])]
        node_objs == [i \in DOMAIN nodes |-> Node(nodes[i][1], nodes[i][2])]
        down_node_objs == [i \in DOMAIN down_nodes |-> DownNodes(down_nodes[i])]
        parameters == Parameters([k \in DOMAIN conf \ {<<"partitions">>, <<"nodes">>, <<"down_nodes">>}
                                     |-> conf[k]])
    IN  IF \/ \E i \in DOMAIN partition_objs : ~partition_objs[i].ok
           \/ \E i \in DOMAIN node_objs : ~node_objs[i].ok
           \/ \E i \in DOMAIN down_node_objs : ~down_node_objs[i].ok
           \/ ~parameters.ok
        THEN Raise("TypeError")
        ELSE LET partition_entries ==
                     IF Len(partitions) > 0
                     THEN [i \in DOMAIN partition_objs |->
                              Partition_as_slurm_conf_entry(partition_objs[i].val)]
                     ELSE << <<"PartitionName", EQ, "DEFAULT", SP, "Default", EQ, "YES">> >>
                 node_entries ==
                     [i \in DOMAIN node_objs |-> Node_as_slurm_conf_entry(node_objs[i].val)]
                 down_node_entries ==
                     [i \in DOMAIN down_node_objs |->
                         DownNodes_as_slurm_conf_entry(down_node_objs[i].val)]
             IN  Return(dedent_all(
                     sections(Parameters_as_slurm_conf_entries(parameters.val),
                              partition_entries, node_entries, down_node_entries),
                     NL))

----------------------------------------------------------------------------
(* slurm_conf_editor.py: the snap-configuration renderer *)

APOS == "'"
DOT == "."

\* the fields that hold a list of node names; every other field holds a str
ListFields == {"Nodes", "DownNodes"}

\* str(v) of a list of str: its repr, "['n1', 'n2']"
RECURSIVE repr_items(_)
repr_items(names) ==
    IF Len(names) = 0 THEN <<>>
    ELSE IF Len(names) = 1 THEN <<APOS, names[1], APOS>>
    ELSE <<APOS, names[1], APOS, COMMA, SP>> \o repr_items(Tail(names))
repr_list(names) == <<"[">> \o repr_items(names) \o <<"]">>

\* str(v) of the value of field k of a dataclass instance; an unset field is None
str(self, k) ==
    IF k \notin DOMAIN self THEN <<"None">>
    ELSE IF k \in ListFields THEN repr_list(self[k])
    ELSE self[k]

\* (str(k), str(v)) for the fields that are not None, in declaration order
snap_entries(fields, self) ==
    LET set_fields == SelectSeq(fields, LAMBDA k : k \in DOMAIN self)
    IN  [i \in DOMAIN set_fields |-> << <<set_fields[i]>>, str(self, set_fields[i]) >>]

\* Parameters.as_snap_conf_entries
Parameters_as_snap_conf_entries(self) == snap_entries(ParametersFields, self)

\* Partition.as_snap_conf_entries: the filter `v is not None or k is not "PartitionName"`
\* passes PartitionName, which is never None, and every other field, set or not
Partition_as_snap_conf_entries(self) ==
    LET kept == SelectSeq(PartitionFields,
                          LAMBDA k : k \in DOMAIN self \/ k # "PartitionName")
    IN  [i \in DOMAIN kept |-> << self["PartitionName"] \o <<DOT, kept[i]>>, str(self, kept[i]) >>]

\* Node.as_snap_conf_entries
Node_as_snap_conf_entries(self) == snap_entries(NodeFields, self)

\* DownNodes.as_snap_conf_entries
DownNodes_as_snap_conf_entries(self) == snap_entries(DownNodesFields, self)

\* no entries in place of the synthetic ones
synthetic_partition_entries_missing == <<>>

\* the entries slurm_conf_as_snap_conf emits for a document without partitions
synthetic_partition_entries ==
    << << <<"partition-name">>, <<"DEFAULT">> >>, << <<"default">>, <<"YES">> >> >>

\* itertools.chain over the entries of each element of a list
RECURSIVE chain(_)
chain(lists) == IF Len(lists) = 0 THEN <<>> ELSE lists[1] \o chain(Tail(lists))

\* dict(pairs): the last pair of a key gives its value
dict_of(pairs) ==
    [k \in {pairs[i][1] : i \in DOMAIN pairs} |->
        pairs[CHOOSE i \in DOMAIN pairs :
                 pairs[i][1] = k /\ \A j \in DOMAIN pairs : pairs[j][1] = k => j <= i][2]]

\* slurm_conf_as_snap_conf
slurm_conf_as_snap_conf(conf) ==
    IF ~({<<"partitions">>, <<"nodes">>, <<"down_nodes">>} \subseteq DOMAIN conf)
    THEN Raise("KeyError")
    ELSE
    LET partitions == conf[<<"partitions">>]
        nodes == conf[<<"nodes">>]
        down_nodes == conf[<<"down_nodes">>]
        partition_objs == [i \in DOMAIN partitions |-> Partition(partitions[i][1], partitions[i][2])]
        node_objs == [i \in DOMAIN nodes |-> Node(nodes[i][1], nodes[i][2])]
        down_node_objs == [i \in DOMAIN down_nodes |-> DownNodes(down_nodes[i])]
        parameters == Parameters([k \in DOMAIN conf \ {<<"partitions">>, <<"nodes">>, <<"down_nodes">>}
                                     |-> conf[k]])
    IN  IF \/ \E i \in DOMAIN partition_objs : ~partition_objs[i].ok
           \/ \E i \in DOMAIN node_objs : ~node_objs[i].ok
           \/ \E i \in DOMAIN down_node_objs : ~down_node_objs[i].ok
           \/ ~parameters.ok
        THEN Raise("TypeError")
        ELSE LET partition_entries ==
                     IF Len(partitions) > 0
                     THEN chain([i \in DOMAIN partition_objs |->
                                    Partition_as_snap_conf_entries(partition_objs[i].val)])
                     ELSE synthetic_partition_entries
                 node_entries ==
                     chain([i \in DOMAIN node_objs |->
                               Node_as_snap_conf_entries(node_objs[i].val)])
                 down_node_entries ==
                     chain([i \in DOMAIN down_node_objs |->
                               DownNodes_as_snap_conf_entries(down_node_objs[i].val)])
             IN  Return(dict_of(Parameters_as_snap_conf_entries(parameters.val)
                                \o partition_entries \o node_entries \o down_node_entries))

\* dict.pop(k) on a dict that has k: the dict without k
pop(d, k) == [x \in DOMAIN d \ {<<k>>} |-> d[x]]

\* copy.deepcopy: another object of the same value
deepcopy(x) == x

\* the local name slurm_conf left bound to the caller's dict
bound_in_place(conf) == [argument |-> conf, slurm_conf |-> conf, shared |-> TRUE, raised |-> FALSE]

\* `slurm_conf = copy.deepcopy(slurm_conf)`: the caller's dict, and the dict the
\* local name is bound to from then on
bound_to_copy(conf) == [argument |-> conf, slurm_conf |-> deepcopy(conf), shared |-> FALSE, raised |-> FALSE]

\* `slurm_conf.pop(k)`: KeyError ends the call; a dict two names share loses k under both
popped(objs, k) ==
    IF objs.raised \/ <<k>> \notin DOMAIN objs.slurm_conf THEN [objs EXCEPT !.raised = TRUE]
    ELSE [objs EXCEPT !.slurm_conf = pop(@, k),
                      !.argument = IF objs.shared THEN pop(@, k) ELSE @]

\* the caller's dict when slurm_conf_as_string or slurm_conf_as_snap_conf is over
argument_after(conf) ==
    popped(popped(popped(bound_to_copy(conf), "partitions"), "nodes"), "down_nodes").argument

----------------------------------------------------------------------------
(* Inputs *)

\* most lines of a slurm-conf-parameters text
MaxLines == 2
\* most partition, node and DownNodes entries of a document handed to the renderer
MaxEntries == 3

\* lines a user writes into slurm-conf-parameters
UserLines == {
    <<>>,
    <<SP>>,
    <<HASH, SP, "comment">>,
    <<"ClusterName", EQ, "mycluster">>,
    <<"ClusterName", EQ, "other">>,
    <<"MaxJobCount", EQ, "10">>,
    <<"AuthAltParameters", EQ, "jwt_key", EQ, "/etc/jwt.key">>,
    <<"AccountingStorageHost", EQ, "acct-user">>,
    <<"SlurmctldParameters", EQ, "enable_configless", COMMA, "other_flag">>,
    <<"NotAParameter", EQ, "1">>,
    <<"NotAKeyValue">> }

\* the texts of one to MaxLines lines
UserTexts == UNION {{join(NL, ls) : ls \in [1..n -> UserLines]} : n \in 1..MaxLines}

\* a short list of texts: empty, well formed, malformed
FewTexts == {<<>>,
             <<"MaxJobCount", EQ, "10">>,
             <<"MaxJobCount", EQ, "10", NL, "NotAKeyValue">>}

\* self.config with each option unset (the empty set) or set to the member of a singleton
Config(params, cluster, partition, cgroup) ==
    LET opt(name, S) == [o \in (IF S = {} THEN {} ELSE {name}) |-> CHOOSE x \in S : TRUE]
    IN  opt("slurm-conf-parameters", params) @@ opt("cluster-name", cluster)
        @@ opt("default-partition", partition) @@ opt("cgroup-parameters", cgroup)

Optional(S) == {{}} \cup {{x} : x \in S}

\* names of compute nodes and the orders in which a set of them iterates
NodeNames == {"n1", "n2"}
Orders == {o \in [1..Cardinality(NodeNames) -> NodeNames] : Range(o) = NodeNames}

\* relation data: a value that is absent, not JSON, or the JSON of v
JNone == [t |-> "none"]
JBad == [t |-> "bad"]
Json(v) == [t |-> "json", v |-> v]

NodeJson(name, new_node) ==
    Json([new_node |-> new_node,
          node_parameters |-> [NodeName |-> name, NodeAddr |-> <<"10.0.0.", name>>]])

\* slurmd relations as the charm can find them
PlainRelation ==
    << [partition |-> Json(<< <<"p1", [State |-> <<"UP">>] >> >>),
        units |-> <<NodeJson("n1", TRUE), NodeJson("n2", FALSE)>>] >>
RelationExamples == {
    <<>>,
    PlainRelation,
    << [partition |-> Json(<< <<"p1", <<>> >> >>), units |-> <<NodeJson("n2", TRUE)>>],
       [partition |-> Json(<< <<"p2", [MaxTime |-> <<"60">>] >> >>),
        units |-> <<NodeJson("n1", TRUE)>>] >>,
    << [partition |-> JBad, units |-> <<NodeJson("n1", TRUE)>>] >>,
    \* an application that has not published its partition yet, next to one that has
    << [partition |-> JNone, units |-> <<NodeJson("n1", TRUE)>>],
       [partition |-> Json(<< <<"p2", [MaxTime |-> <<"60">>] >> >>),
        units |-> <<NodeJson("n2", FALSE)>>] >>,
    << [partition |-> Json(<< <<"p1", [State |-> <<"UP">>] >> >>),
        units |-> <<NodeJson("n1", TRUE), NodeJson("n2", TRUE)>>] >>,
    \* a unit that has not published its node yet
    << [partition |-> Json(<< <<"p1", <<>> >> >>), units |-> <<NodeJson("n1", FALSE), JNone>>] >>,
    << [partition |-> Json(<< <<"p1", <<>> >> >>), units |-> <<NodeJson("n1", FALSE)>>],
       [partition |-> Json(<< <<"p2", [Default |-> <<"NO">>] >> >>),
        units |-> <<NodeJson("n2", TRUE)>>] >>,
    \* two applications that publish a partition of the same name
    << [partition |-> Json(<< <<"p1", [State |-> <<"UP">>] >> >>),
        units |-> <<NodeJson("n1", FALSE)>>],
       [partition |-> Json(<< <<"p1", [State |-> <<"UP">>] >> >>),
        units |-> <<NodeJson("n2", FALSE)>>] >>,
    \* two units that publish the same NodeName
    << [partition |-> Json(<< <<"p1", <<>> >> >>),
        units |-> <<NodeJson("n1", TRUE), NodeJson("n1", TRUE), NodeJson("n2", FALSE)>>] >>,
    \* a unit whose node is not JSON, next to one whose node is
    << [partition |-> Json(<< <<"p1", [State |-> <<"UP">>] >> >>),
        units |-> <<NodeJson("n1", TRUE), JBad>>] >>,
    \* an application whose partition is not JSON, after one whose partition is
    << [partition |-> Json(<< <<"p1", <<>> >> >>), units |-> <<NodeJson("n1", FALSE)>>],
       [partition |-> JBad, units |-> <<NodeJson("n2", TRUE)>>] >>,
    \* a unit whose node is not JSON, of an application that has published no partition
    << [partition |-> JNone, units |-> <<JBad>>],
       [partition |-> Json(<< <<"p2", <<>> >> >>), units |-> <<NodeJson("n2", TRUE)>>] >>,
    \* a partition that carries a key which is no field of Partition
    << [partition |-> Json(<< <<"p1", [NotAField |-> <<"1">>] >> >>),
        units |-> <<NodeJson("n1", FALSE)>>] >>,
    \* a node that carries a key which is no field of Node
    << [partition |-> Json(<< <<"p1", <<>> >> >>),
        units |-> <<Json([new_node |-> FALSE,
                          node_parameters |-> [NodeName |-> "n1", NotAField |-> <<"1">>]])>>] >> }

SlurmdbdHosts == {<<>>, <<"slurmdbd-0">>}

\* documents handed to the renderer directly
ParameterChoices == {
    <<>>,
    dict(<< <<"ClusterName", <<"charmedhpc">> >>, <<"SlurmctldHost", hostname>>,
            <<"AuthAltParameters", <<"jwt_key", EQ, "/etc/jwt.key">> >> >>),
    update(CHARM_MAINTAINED_SLURM_CONF_PARAMETERS, accounting_params_of(<<"slurmdbd-0">>)) }
PartitionChoices == {
    [Nodes |-> <<>>],
    [Nodes |-> <<"n2", "n1">>, State |-> <<"UP">>, Default |-> <<"YES">>] }
NodeChoices == {
    <<>>,
    [NodeAddr |-> <<"10.0.0.1">>, State |-> <<"UNKNOWN">>, CPUs |-> <<"4">>] }
DownNodesChoices == {
    [DownNodes |-> <<"n1">>, State |-> <<"DOWN">>, Reason |-> <<"New", SP, "node.">>],
    [DownNodes |-> <<"n1", "n2">>, State |-> <<"DRAIN">>, Reason |-> <<"maintenance">>] }

\* names of the entries of a drawn document, by position
EntryNames == [p |-> <<"p1", "p2", "p3", "p4", "p5">>, n |-> <<"n1", "n2", "n3", "n4", "n5">>]
EntryName(prefix, i) == EntryNames[prefix][i]

Documents ==
    LET named(prefix, choice) == [i \in DOMAIN choice |-> <<EntryName(prefix, i), choice[i]>>]
    IN  { update(ps, dict(<< <<"partitions", named("p", p)>>, <<"nodes", named("n", n)>>,
                             <<"down_nodes", g>> >>)) :
            <<ps, p, n, g>> \in UNION { UNION { UNION {
                ParameterChoices \X [1..np -> PartitionChoices]
                                 \X [1..nn -> NodeChoices]
                                 \X [1..ng -> DownNodesChoices] :
                ng \in 0..(MaxEntries - np - nn)} : nn \in 0..(MaxEntries - np)} :
                np \in 0..MaxEntries} }

\* documents that carry a key outside the catalog: a global one, one of a partition,
\* one of a node
UnrecognizedDocuments ==
    LET inventory(p, n) == dict(<< <<"partitions", p>>, <<"nodes", n>>, <<"down_nodes", <<>> >> >>)
        known == dict(<< <<"ClusterName", <<"charmedhpc">> >> >>)
    IN  { update(dict(<< <<"NotAParameter", <<"1">> >> >>), inventory(<<>>, <<>>)),
          update(update(known, dict(<< <<"NotAParameter", <<"1">> >> >>)),
                 inventory(<< <<"p1", [Nodes |-> <<"n1">>] >> >>, << <<"n1", <<>> >> >>)),
          update(known, inventory(<< <<"p1", [Nodes |-> <<>>, NotAField |-> <<"1">>] >> >>, <<>>)),
          update(known, inventory(<< <<"p1", [Nodes |-> <<"n1">>] >> >>,
                                  << <<"n1", [NotAField |-> <<"1">>] >> >>)) }

----------------------------------------------------------------------------
(* The assembly and rendering core applied to drawn inputs *)

Pending == [ok |-> FALSE, exc |-> "pending"]

\* a file that does not exist
Absent == Raise("FileNotFoundError")

\* StoredState after set_default in SlurmctldCharm.__init__; jwt_rsa is not an attribute yet
stored_defaults ==
    [default_partition |-> "", jwt_key |-> "", munge_key |-> "", new_nodes |-> <<>>,
     nhc_params |-> "", slurm_installed |-> FALSE, slurmdbd_host |-> <<>>,
     user_supplied_slurm_conf_params |-> <<>>, jwt_rsa |-> "<unset>"]

Unset == Raise("KeyError")
no_app_data ==
    [slurmd |-> <<>>, slurmdbd |-> JNone, slurmrestd |-> [munge_key |-> "", slurm_conf |-> Unset]]
NoSnapshot == [stored |-> stored_defaults, deferred |-> <<>>, app_data |-> no_app_data]

\* no handler runs: the charm is as constructed
NoDispatch ==
    /\ is_leader = TRUE
    /\ slurmdbd = [joined |-> FALSE, slurmdbd_host |-> <<>>]
    /\ slurmrestd = FALSE
    /\ hooks = 0
    /\ slurmctld = "inactive"
    /\ slurm_conf_file = Absent
    /\ cgroup_conf_file = Absent
    /\ app_data = no_app_data
    /\ status = "Maintenance"
    /\ calls = <<>>
    /\ deferred = <<>>
    /\ exc = ""
    /\ pending = <<>>
    /\ committed = NoSnapshot


InitAssemble ==
    /\ \/ /\ \E t \in Optional(UserTexts), c \in Optional({<<"osd-cluster">>}) :
                config = Config(t, c, {}, {})
          /\ relations = PlainRelation
          /\ is_container = FALSE
       \/ /\ \E t \in Optional(FewTexts), p \in Optional({"p1", "p2"}) :
                config = Config(t, {}, p, {})
          /\ relations \in RelationExamples
          /\ is_container \in BOOLEAN
    /\ \E host \in SlurmdbdHosts : stored = [stored_defaults EXCEPT !.slurmdbd_host = host]
    /\ NoDispatch
    /\ slurm_config = Pending
    /\ slurm_conf = Pending
    /\ snap_conf = Pending
    /\ pc = "inputs"

InitRender ==
    /\ config = Config({}, {}, {}, {})
    /\ relations = <<>>
    /\ is_container = FALSE
    /\ stored = stored_defaults
    /\ NoDispatch
    /\ slurm_config \in {Return(d) : d \in Documents \cup UnrecognizedDocuments}
    /\ slurm_conf = Pending
    /\ snap_conf = Pending
    /\ pc = "document"

InitCore == InitAssemble \/ InitRender

\* a call of _assemble_slurm_conf in a process whose sets iterate in some order
Assemble ==
    /\ pc = "inputs"
    /\ \E order \in Orders : slurm_config' = _assemble_slurm_conf(order)
    /\ pc' = "assembled"
    /\ UNCHANGED <<config, stored, relations, is_container, slurm_conf, snap_conf>>
    /\ UNCHANGED <<is_leader, slurmdbd, slurmrestd, hooks, slurmctld, slurm_conf_file,
                   cgroup_conf_file, app_data, status, calls, deferred, exc, pending, committed>>

\* a call of slurm_conf_as_string on the assembled or drawn document
Render ==
    /\ pc \in {"assembled", "document"}
    /\ slurm_config.ok
    /\ slurm_conf = Pending
    /\ slurm_conf' = slurm_conf_as_string(slurm_config.val)
    /\ slurm_config' = Return(argument_after(slurm_config.val))
    /\ UNCHANGED <<config, stored, relations, is_container, snap_conf, pc>>
    /\ UNCHANGED <<is_leader, slurmdbd, slurmrestd, hooks, slurmctld, slurm_conf_file,
                   cgroup_conf_file, app_data, status, calls, deferred, exc, pending, committed>>

\* a call of slurm_conf_as_snap_conf on the document that has been rendered flat
RenderSnap ==
    /\ pc \in {"assembled", "document"}
    /\ slurm_config.ok
    /\ slurm_conf # Pending
    /\ snap_conf = Pending
    /\ snap_conf' = slurm_conf_as_snap_conf(slurm_config.val)
    /\ slurm_config' = Return(argument_after(slurm_config.val))
    /\ UNCHANGED <<config, stored, relations, is_container, slurm_conf, pc>>
    /\ UNCHANGED <<is_leader, slurmdbd, slurmrestd, hooks, slurmctld, slurm_conf_file,
                   cgroup_conf_file, app_data, status, calls, deferred, exc, pending, committed>>

NextCore == Assemble \/ Render \/ RenderSnap

SpecCore == InitCore /\ [][NextCore]_vars

----------------------------------------------------------------------------
(* The slurmctld manager and the relation data the handlers act on *)

\* name = value, then the rest: the value is computed once and then named
bind(value, rest(_)) == CHOOSE result \in {rest(x) : x \in {value}} : TRUE

\* one call on the manager or on a relation, recorded in the order made
Call(cmd, arg) == [cmd |-> cmd, arg |-> arg]

\* the charm during a handler: everything a handler reads and changes
Self ==
    [stored |-> stored, slurmctld |-> slurmctld, slurm_conf_file |-> slurm_conf_file,
     cgroup_conf_file |-> cgroup_conf_file, app_data |-> app_data, status |-> status,
     calls |-> calls, deferred |-> deferred, exc |-> exc, slurm_config |-> slurm_config,
     slurm_conf |-> slurm_conf, ret |-> TRUE]

called(self, cmd, arg) == [self EXCEPT !.calls = Append(@, Call(cmd, arg))]

\* event.defer(): the framework keeps one notice of the event for the next dispatch
defer(self, event) ==
    IF event \in Range(self.deferred) THEN self
    ELSE [self EXCEPT !.deferred = Append(@, event)]

\* an exception leaving the handler
raise(self, e) == [self EXCEPT !.exc = e]

\* SlurmctldManager.stop_slurmctld, start_slurmctld: the slurmctld service
stop_slurmctld(self) == [called(self, "stop_slurmctld", <<>>) EXCEPT !.slurmctld = "inactive"]
start_slurmctld(self) == [called(self, "start_slurmctld", <<>>) EXCEPT !.slurmctld = "active"]

\* SlurmctldManager.write_slurm_conf: the flat rendering of the document, written to slurm.conf
write_slurm_conf(self, document) ==
    bind(slurm_conf_as_string(document), LAMBDA text :
        IF ~text.ok THEN raise([self EXCEPT !.slurm_conf = text], text.exc)
        ELSE [called(self, "write_slurm_conf", <<>>) EXCEPT
                 !.slurm_conf_file = text, !.slurm_conf = text])

\* SlurmctldManager.write_cgroup_conf
write_cgroup_conf(self, content) ==
    [called(self, "write_cgroup_conf", <<>>) EXCEPT !.cgroup_conf_file = Return(content)]

\* SlurmctldManager.slurm_cmd
slurm_cmd(self, command, arg_string) == called(self, command, arg_string)

\* Slurmrestd.is_joined
is_joined == slurmrestd

\* set_slurm_config_on_app_relation_data leaving the value on the relation as it is
set_slurm_config_on_app_relation_data_keeping_value(self, text) ==
    IF is_joined THEN called(self, "set_slurm_config_on_app_relation_data", <<>>) ELSE self

\* Slurmrestd.set_slurm_config_on_app_relation_data: on every slurmrestd relation
set_slurm_config_on_app_relation_data(self, text) ==
    IF is_joined
    THEN [called(self, "set_slurm_config_on_app_relation_data", <<>>) EXCEPT
             !.app_data.slurmrestd.slurm_conf = Return(text)]
    ELSE self

----------------------------------------------------------------------------
(* charm.py: the handlers *)

\* SlurmctldManager.check_munged: whether munge works, as found when called
check_munged(self, munged) == called(self, "check_munged", <<IF munged THEN "True" ELSE "False">>)

\* _check_status without the munge check
_check_status_without_munge(self, munged) ==
    IF self.stored.slurm_installed # TRUE
    THEN [self EXCEPT !.status = "Blocked: Error installing slurmctld", !.ret = FALSE]
    ELSE [check_munged(self, munged) EXCEPT !.status = "Active", !.ret = TRUE]

\* SlurmctldCharm._check_status: the unit status and, in ret, the value returned
_check_status(self, munged) ==
    IF self.stored.slurm_installed # TRUE
    THEN [self EXCEPT !.status = "Blocked: Error installing slurmctld", !.ret = FALSE]
    ELSE IF ~munged
    THEN [check_munged(self, munged) EXCEPT
             !.status = "Blocked: Error configuring munge key", !.ret = FALSE]
    ELSE [check_munged(self, munged) EXCEPT !.status = "Active", !.ret = TRUE]

\* _get_new_node_names_from_slurm_config finding no new node in any document
_get_new_node_names_from_slurm_config_finding_none(document) == <<>>

\* SlurmctldCharm._get_new_node_names_from_slurm_config
_get_new_node_names_from_slurm_config(document) ==
    LET down_nodes_from_slurm_config == document[<<"down_nodes">>]
        names(down_nodes_entry) ==
            IF down_nodes_entry.Reason = <<"New", SP, "node.">>
            THEN down_nodes_entry.DownNodes ELSE <<>>
        RECURSIVE loop(_)
        loop(entries) ==
            IF Len(entries) = 0 THEN <<>> ELSE names(entries[1]) \o loop(Tail(entries))
    IN  loop(down_nodes_from_slurm_config)

\* SlurmctldCharm._resume_nodes
_resume_nodes(self, nodelist) ==
    slurm_cmd(self, "scontrol",
        <<"update", SP, "nodename", EQ>> \o join(COMMA, [i \in DOMAIN nodelist |-> <<nodelist[i]>>])
            \o <<SP, "state", EQ, "resume">>)

\* write_pass resuming the transitioning nodes without updating the stored new_nodes
write_pass_keeping_new_nodes(self, document) ==
    bind(write_slurm_conf(stop_slurmctld(self), document), LAMBDA written :
        IF written.exc # "" THEN written
        ELSE
        LET user_supplied_cgroup_parameters ==
                IF is_set("cgroup-parameters") THEN config["cgroup-parameters"] ELSE <<>>
        IN
        bind(slurm_cmd(start_slurmctld(
                 IF user_supplied_cgroup_parameters # <<>>
                 THEN write_cgroup_conf(written, user_supplied_cgroup_parameters)
                 ELSE written), "scontrol", <<"reconfigure">>), LAMBDA reconfigured :
            LET new_nodes_from_stored_state == reconfigured.stored.new_nodes
                new_nodes_from_slurm_config == _get_new_node_names_from_slurm_config(document)
                transitioning_nodes ==
                    SelectSeq(new_nodes_from_stored_state,
                              LAMBDA node : node \notin Range(new_nodes_from_slurm_config))
                resumed ==
                    IF Len(transitioning_nodes) > 0
                    THEN _resume_nodes(reconfigured, transitioning_nodes)
                    ELSE reconfigured
            IN  IF is_joined
                THEN set_slurm_config_on_app_relation_data(
                         resumed, slurm_conf_as_string(document).val)
                ELSE resumed))

\* write_pass writing slurm.conf before it stops slurmctld
write_pass_writing_first(self, document) ==
    bind(stop_slurmctld(write_slurm_conf(self, document)), LAMBDA written :
        IF written.exc # "" THEN written
        ELSE
        LET user_supplied_cgroup_parameters ==
                IF is_set("cgroup-parameters") THEN config["cgroup-parameters"] ELSE <<>>
        IN
        bind(slurm_cmd(start_slurmctld(
                 IF user_supplied_cgroup_parameters # <<>>
                 THEN write_cgroup_conf(written, user_supplied_cgroup_parameters)
                 ELSE written), "scontrol", <<"reconfigure">>), LAMBDA reconfigured :
            LET new_nodes_from_stored_state == reconfigured.stored.new_nodes
                new_nodes_from_slurm_config == _get_new_node_names_from_slurm_config(document)
                transitioning_nodes ==
                    SelectSeq(new_nodes_from_stored_state,
                              LAMBDA node : node \notin Range(new_nodes_from_slurm_config))
                resumed ==
                    IF Len(transitioning_nodes) > 0
                    THEN [_resume_nodes(reconfigured, transitioning_nodes) EXCEPT
                             !.stored.new_nodes = new_nodes_from_slurm_config]
                    ELSE reconfigured
            IN  IF is_joined
                THEN set_slurm_config_on_app_relation_data(
                         resumed, slurm_conf_as_string(document).val)
                ELSE resumed))

\* the branch of _on_write_slurm_conf taken with an assembled document
write_pass(self, document) ==
    bind(write_slurm_conf(stop_slurmctld(self), document), LAMBDA written :
        IF written.exc # "" THEN written
        ELSE
        LET user_supplied_cgroup_parameters ==
                IF is_set("cgroup-parameters") THEN config["cgroup-parameters"] ELSE <<>>
        IN
        bind(slurm_cmd(start_slurmctld(
                 IF user_supplied_cgroup_parameters # <<>>
                 THEN write_cgroup_conf(written, user_supplied_cgroup_parameters)
                 ELSE written), "scontrol", <<"reconfigure">>), LAMBDA reconfigured :
            LET new_nodes_from_stored_state == reconfigured.stored.new_nodes
                new_nodes_from_slurm_config == _get_new_node_names_from_slurm_config(document)
                transitioning_nodes ==
                    SelectSeq(new_nodes_from_stored_state,
                              LAMBDA node : node \notin Range(new_nodes_from_slurm_config))
                resumed ==
                    IF Len(transitioning_nodes) > 0
                    THEN [_resume_nodes(reconfigured, transitioning_nodes) EXCEPT
                             !.stored.new_nodes = new_nodes_from_slurm_config]
                    ELSE reconfigured
            IN  IF is_joined
                THEN set_slurm_config_on_app_relation_data(
                         resumed, slurm_conf_as_string(document).val)
                ELSE resumed))

\* _on_write_slurm_conf with slurmctld stopped before the document is assembled
_on_write_slurm_conf_stop_first(self, event, order, munged) ==
    IF ~is_leader THEN self
    ELSE bind(_check_status(self, munged), LAMBDA checked :
        IF ~checked.ret THEN defer(checked, event)
        ELSE bind(_assemble_slurm_conf(order), LAMBDA assembled :
            IF ~assembled.ok
            THEN raise([stop_slurmctld(checked) EXCEPT !.slurm_config = assembled],
                       assembled.exc)
            ELSE IF DOMAIN assembled.val # {}
            THEN write_pass([checked EXCEPT !.slurm_config = assembled], assembled.val)
            ELSE defer([checked EXCEPT !.slurm_config = assembled], event)))

\* _on_write_slurm_conf going on whatever _check_status returns
_on_write_slurm_conf_when_not_ready(self, event, order, munged) ==
    IF ~is_leader THEN self
    ELSE bind(_check_status(self, munged), LAMBDA checked :
        bind(_assemble_slurm_conf(order), LAMBDA assembled :
            IF ~assembled.ok
            THEN raise([checked EXCEPT !.slurm_config = assembled], assembled.exc)
            ELSE IF DOMAIN assembled.val # {}
            THEN write_pass([checked EXCEPT !.slurm_config = assembled], assembled.val)
            ELSE defer([checked EXCEPT !.slurm_config = assembled], event)))

\* _on_write_slurm_conf without the test for the leader
_on_write_slurm_conf_on_any_unit(self, event, order, munged) ==
    bind(_check_status(self, munged), LAMBDA checked :
        IF ~checked.ret THEN defer(checked, event)
        ELSE bind(_assemble_slurm_conf(order), LAMBDA assembled :
            IF ~assembled.ok
            THEN raise([checked EXCEPT !.slurm_config = assembled], assembled.exc)
            ELSE IF DOMAIN assembled.val # {}
            THEN write_pass([checked EXCEPT !.slurm_config = assembled], assembled.val)
            ELSE defer([checked EXCEPT !.slurm_config = assembled], event)))

\* SlurmctldCharm._on_write_slurm_conf, in a process whose sets iterate in `order`
\* and where munge is found working or not
_on_write_slurm_conf(self, event, order, munged) ==
    IF ~is_leader THEN self
    ELSE bind(_check_status(self, munged), LAMBDA checked :
        IF ~checked.ret THEN defer(checked, event)
        ELSE bind(_assemble_slurm_conf(order), LAMBDA assembled :
            IF ~assembled.ok
            THEN raise([checked EXCEPT !.slurm_config = assembled], assembled.exc)
            ELSE IF DOMAIN assembled.val # {}
            THEN write_pass([checked EXCEPT !.slurm_config = assembled], assembled.val)
            ELSE defer([checked EXCEPT !.slurm_config = assembled], event)))

\* SlurmctldCharm._on_install up to its call of _on_write_slurm_conf;
\* installed is what SlurmctldManager.install() returns
_on_install(self0, event, installed) ==
    LET self == [self0 EXCEPT !.status = "Waiting: Installing slurmctld"] IN
    IF installed
    THEN LET s1 == [called(self, "install", <<>>) EXCEPT
                       !.slurm_conf_file = Absent, !.slurmctld = "inactive"]
         IN  IF is_leader
             THEN LET s2 == [s1 EXCEPT !.stored.jwt_rsa = "jwt_rsa",
                                       !.stored.munge_key = "munge_key"]
                      s3 == called(called(called(s2, "stop_munged", <<>>),
                                          "write_munge_key", <<>>), "start_munged", <<>>)
                      s4 == start_slurmctld(called(stop_slurmctld(s3), "write_jwt_rsa", <<>>))
                  IN  [s4 EXCEPT !.stored.slurm_installed = TRUE]
             ELSE defer([s1 EXCEPT !.status = "Blocked: Only singleton slurmctld is supported."],
                        event)
    ELSE defer([self EXCEPT !.status = "Blocked: Error installing slurmctld"], event)

\* Slurmd.set_nhc_params
set_nhc_params(self, params) ==
    IF \E i \in DOMAIN self.app_data.slurmd : self.app_data.slurmd[i].t = "none"
    THEN raise(self, "KeyError")
    ELSE IF \E i \in DOMAIN self.app_data.slurmd : self.app_data.slurmd[i].t = "bad"
    THEN raise(self, "JSONDecodeError")
    ELSE [self EXCEPT !.app_data.slurmd =
             [i \in DOMAIN @ |-> Json([@[i].v EXCEPT !.nhc_params = params])]]

\* _on_config_changed comparing with the stored values without copying the new ones
_on_config_changed_without_copy(self) ==
    LET charm_config_nhc_params ==
            IF is_set("health-check-params") THEN config["health-check-params"] ELSE ""
        s1 == IF charm_config_nhc_params # self.stored.nhc_params
                 /\ charm_config_nhc_params # ""
              THEN set_nhc_params([self EXCEPT !.stored.nhc_params = charm_config_nhc_params],
                                  charm_config_nhc_params)
              ELSE self
        partition_changed ==
            /\ is_set("default-partition") /\ config["default-partition"] # ""
            /\ config["default-partition"] # s1.stored.default_partition
        s2 == s1
        params_changed ==
            /\ is_set("slurm-conf-parameters")
            /\ config["slurm-conf-parameters"] # s2.stored.user_supplied_slurm_conf_params
        s3 == s2
    IN  IF s1.exc # "" THEN s1
        ELSE [s3 EXCEPT !.ret = partition_changed \/ params_changed]

\* SlurmctldCharm._on_config_changed up to its call of _on_write_slurm_conf;
\* ret tells whether the call is made
_on_config_changed(self) ==
    LET charm_config_nhc_params ==
            IF is_set("health-check-params") THEN config["health-check-params"] ELSE ""
        s1 == IF charm_config_nhc_params # self.stored.nhc_params
                 /\ charm_config_nhc_params # ""
              THEN set_nhc_params([self EXCEPT !.stored.nhc_params = charm_config_nhc_params],
                                  charm_config_nhc_params)
              ELSE self
        partition_changed ==
            /\ is_set("default-partition") /\ config["default-partition"] # ""
            /\ config["default-partition"] # s1.stored.default_partition
        s2 == IF partition_changed
              THEN [s1 EXCEPT !.stored.default_partition = config["default-partition"]]
              ELSE s1
        params_changed ==
            /\ is_set("slurm-conf-parameters")
            /\ config["slurm-conf-parameters"] # s2.stored.user_supplied_slurm_conf_params
        s3 == IF params_changed
              THEN [s2 EXCEPT !.stored.user_supplied_slurm_conf_params =
                                  config["slurm-conf-parameters"]]
              ELSE s2
    IN  IF s1.exc # "" THEN s1
        ELSE [s3 EXCEPT !.ret = partition_changed \/ params_changed]

\* SlurmctldCharm._on_update_status
_on_update_status(self, munged) == _check_status(self, munged)

\* _on_slurmrestd_available giving up, not deferring, when the check fails
_on_slurmrestd_available_without_defer(self, event, order, munged) ==
    IF is_leader
    THEN bind(_check_status(self, munged), LAMBDA checked :
        IF checked.ret
        THEN bind(_assemble_slurm_conf(order), LAMBDA assembled :
            IF ~assembled.ok
            THEN raise([checked EXCEPT !.slurm_config = assembled], assembled.exc)
            ELSE bind(slurm_conf_as_string(assembled.val), LAMBDA text :
                IF ~text.ok
                THEN raise([checked EXCEPT !.slurm_config = assembled, !.slurm_conf = text],
                           text.exc)
                ELSE set_slurm_config_on_app_relation_data(
                         [checked EXCEPT !.slurm_config = assembled, !.slurm_conf = text],
                         text.val)))
        ELSE checked)
    ELSE self

\* SlurmctldCharm._on_slurmrestd_available
_on_slurmrestd_available(self, event, order, munged) ==
    IF is_leader
    THEN bind(_check_status(self, munged), LAMBDA checked :
        IF checked.ret
        THEN bind(_assemble_slurm_conf(order), LAMBDA assembled :
            IF ~assembled.ok
            THEN raise([checked EXCEPT !.slurm_config = assembled], assembled.exc)
            ELSE bind(slurm_conf_as_string(assembled.val), LAMBDA text :
                IF ~text.ok
                THEN raise([checked EXCEPT !.slurm_config = assembled, !.slurm_conf = text],
                           text.exc)
                ELSE set_slurm_config_on_app_relation_data(
                         [checked EXCEPT !.slurm_config = assembled, !.slurm_conf = text],
                         text.val)))
        ELSE defer(checked, event))
    ELSE self

\* SlurmctldCharm._on_slurmdbd_available up to its call of _on_write_slurm_conf
_on_slurmdbd_available(self, event) ==
    [self EXCEPT !.stored.slurmdbd_host = event.slurmdbd_host]

\* _on_slurmdbd_unavailable clearing the stored new nodes with the host
_on_slurmdbd_unavailable_clearing_new_nodes(self, munged) ==
    _check_status([self EXCEPT !.stored.slurmdbd_host = <<>>, !.stored.new_nodes = <<>>], munged)

\* SlurmctldCharm._on_slurmdbd_unavailable
_on_slurmdbd_unavailable(self, munged) ==
    _check_status([self EXCEPT !.stored.slurmdbd_host = <<>>], munged)

----------------------------------------------------------------------------
(* The relation interfaces: handlers of the relation events *)

\* relation.data[self.model.app][key] = value: only the leader may write application data
set_app_data(self, written) ==
    IF is_leader THEN [self EXCEPT !.app_data = written]
    ELSE raise(self, "RelationDataAccessError")

\* an event that names a slurmd relation which no longer exists
stale(event) == event.relation \notin DOMAIN relations

\* Slurmd._on_relation_created
Slurmd_on_relation_created(self, event) ==
    IF ~(self.stored.slurm_installed = TRUE) THEN defer(self, event)
    ELSE IF ~is_set("health-check-params") THEN raise(self, "TypeError")    \* len(None)
    ELSE IF stale(event) THEN raise(self, "ModelError")
    ELSE LET health_check_params ==
                 IF config["health-check-params"] # "" THEN config["health-check-params"]
                 ELSE "#"
         IN  set_app_data(self,
                 [self.app_data EXCEPT !.slurmd[event.relation] =
                     Json([munge_key |-> self.stored.munge_key,
                           slurmctld_host |-> hostname,
                           cluster_name |-> cluster_name,
                           nhc_params |-> health_check_params])])

\* Slurmd._on_relation_changed; ret holds the events it emits, in order
Slurmd_on_relation_changed(self0, event, order) ==
    LET self == [self0 EXCEPT !.ret = <<>>] IN
    IF stale(event) THEN raise(self, "ModelError")
    ELSE LET relation == relations[event.relation]
             partition_available == [self EXCEPT !.ret = <<[name |-> "partition_available"]>>]
         IN
         IF relation.partition.t = "none" THEN defer(self, event)
         ELSE IF event.unit \notin DOMAIN relation.units THEN partition_available
         ELSE IF relation.units[event.unit].t = "none" THEN partition_available
         ELSE LET loaded == json_loads(relation.units[event.unit]) IN
              IF ~loaded.ok THEN raise(self, loaded.exc)
              ELSE LET node == loaded.val
                       is_new == /\ "new_node" \in DOMAIN node /\ node["new_node"]
                                 /\ "node_parameters" \in DOMAIN node
                                 /\ DOMAIN node["node_parameters"] # {}
                                 /\ "NodeName" \in DOMAIN node["node_parameters"]
                   IN  IF is_new
                       THEN [self EXCEPT
                                !.stored.new_nodes =
                                    list_set(Append(@, node["node_parameters"]["NodeName"]),
                                             order),
                                !.ret = <<[name |-> "slurmd_available"],
                                          [name |-> "partition_available"]>>]
                       ELSE partition_available

\* Slurmd._on_relation_departed; ret holds the event it emits
Slurmd_on_relation_departed(self) == [self EXCEPT !.ret = <<[name |-> "slurmd_departed"]>>]

\* Slurmd._on_relation_broken: the departing relation's data is gone with the relation
Slurmd_on_relation_broken(self) ==
    IF is_leader THEN [self EXCEPT !.ret = <<[name |-> "partition_unavailable"]>>]
    ELSE [self EXCEPT !.ret = <<>>]

\* Slurmdbd._on_relation_created
Slurmdbd_on_relation_created(self, event) ==
    IF ~(self.stored.slurm_installed = TRUE) THEN defer(self, event)
    ELSE IF self.stored.jwt_rsa = "<unset>" THEN raise(self, "AttributeError")
    ELSE set_app_data(self,
             [self.app_data EXCEPT !.slurmdbd =
                 Json([munge_key |-> self.stored.munge_key, jwt_rsa |-> self.stored.jwt_rsa])])

\* Slurmdbd._on_relation_changed; ret holds the event it emits
Slurmdbd_on_relation_changed(self0, event) ==
    LET self == [self0 EXCEPT !.ret = <<>>] IN
    IF ~slurmdbd.joined THEN raise(self, "ModelError")
    ELSE IF slurmdbd.slurmdbd_host # <<>>
    THEN [self EXCEPT !.ret = <<[name |-> "slurmdbd_available",
                                 slurmdbd_host |-> slurmdbd.slurmdbd_host]>>]
    ELSE defer(self, event)

\* Slurmdbd._on_relation_broken; ret holds the event it emits
Slurmdbd_on_relation_broken(self) ==
    [(IF is_leader THEN [self EXCEPT !.app_data.slurmdbd = JBad] ELSE self)
        EXCEPT !.ret = <<[name |-> "slurmdbd_unavailable"]>>]

\* Slurmrestd._on_relation_created without the wait for the installation
Slurmrestd_on_relation_created_before_install(self0, event) ==
    LET self == [self0 EXCEPT !.ret = <<>>]
        written == set_app_data(self,
            [self.app_data EXCEPT !.slurmrestd.munge_key = self.stored.munge_key])
    IN  IF written.exc # "" THEN written
        ELSE [written EXCEPT !.ret = <<[name |-> "slurmrestd_available"]>>]

\* Slurmrestd._on_relation_created; ret holds the event it emits
Slurmrestd_on_relation_created(self0, event) ==
    LET self == [self0 EXCEPT !.ret = <<>>] IN
    IF ~(self.stored.slurm_installed = TRUE) THEN defer(self, event)
    ELSE LET written == set_app_data(self,
                 [self.app_data EXCEPT !.slurmrestd.munge_key = self.stored.munge_key])
         IN  IF written.exc # "" THEN written
             ELSE [written EXCEPT !.ret = <<[name |-> "slurmrestd_available"]>>]

----------------------------------------------------------------------------
(* The charm under the framework: hooks are dispatched one at a time; a    *)
(* dispatch re-emits the deferred events, then the hook's own event; each  *)
(* handler invocation is one step; an exception ends the dispatch without  *)
(* the commit of stored state, deferred notices and relation writes.       *)

\* most hooks the environment dispatches
MaxHooks == 4
\* most update-status hooks dispatched after those, while events are still deferred
MaxLateHooks == 1
\* most slurmd relations at one time
MaxRelations == 1
\* most units of a slurmd relation
MaxUnits == 2

\* the configurations an operator sets
CharmConfigs ==
    { Config(t, {}, p, g) @@ [o \in {"health-check-params"} |-> ""] :
        <<t, p, g>> \in { <<{}, {}, {}>>,
                          <<{<<"MaxJobCount", EQ, "10">>}, {}, {}>>,
                          <<{<<"MaxJobCount", EQ, "10", NL, "NotAKeyValue">>}, {}, {}>>,
                          <<{<<"MaxJobCount", EQ, "10">>}, {"p1"},
                            {<<"ConstrainCores", EQ, "yes">>}>> } }

\* what a slurmdbd application publishes as slurmdbd_host, one unit after another
PublishedHosts == SlurmdbdHosts \cup {<<"slurmdbd-1">>}

\* what a slurmd application and its units publish on a relation
SlurmdData == {
    [partition |-> JNone, units |-> <<NodeJson("n1", TRUE)>>],
    [partition |-> Json(<< <<"p1", [State |-> <<"UP">>] >> >>),
     units |-> <<NodeJson("n1", TRUE)>>],
    [partition |-> Json(<< <<"p1", [State |-> <<"UP">>] >> >>),
     units |-> <<NodeJson("n1", FALSE)>>],
    [partition |-> Json(<< <<"p1", [State |-> <<"UP">>] >> >>),
     units |-> <<NodeJson("n1", FALSE), NodeJson("n2", TRUE)>>],
    [partition |-> JBad, units |-> <<NodeJson("n1", TRUE)>>] }

Remove(s, i) == SubSeq(s, 1, i - 1) \o SubSeq(s, i + 1, Len(s))

environment == <<config, relations, is_leader, is_container, slurmdbd, slurmrestd, hooks>>
charm == <<stored, slurmctld, slurm_conf_file, cgroup_conf_file, app_data, status, calls,
           deferred, exc, slurm_config, slurm_conf>>

InitCharm ==
    /\ config = Config({}, {}, {}, {}) @@ [o \in {"health-check-params"} |-> ""]
    /\ relations = <<>>
    /\ is_leader \in BOOLEAN
    /\ is_container = FALSE
    /\ slurmdbd = [joined |-> FALSE, slurmdbd_host |-> <<>>]
    /\ slurmrestd = FALSE
    /\ hooks = 0
    /\ stored = stored_defaults
    /\ slurmctld = "inactive"
    /\ slurm_conf_file = Absent
    /\ cgroup_conf_file = Absent
    /\ app_data = no_app_data
    /\ status = "Maintenance"
    /\ calls = <<>>
    /\ deferred = <<>>
    /\ exc = ""
    /\ slurm_config = Pending
    /\ slurm_conf = Pending
    /\ snap_conf = Pending
    /\ pending = <<>>
    /\ committed = NoSnapshot
    /\ pc = "charm"

Idle == pending = <<>> /\ exc = "" /\ pc = "charm"
Running == pending # <<>> /\ exc = "" /\ pc = "charm"

\* the framework starts a dispatch: deferred events first, then the hook's event
Dispatch(event, data) ==
    /\ Idle
    /\ \/ hooks < MaxHooks
       \/ /\ hooks < MaxHooks + MaxLateHooks
          /\ event.name = "update_status"
          /\ deferred # <<>>
    /\ hooks' = hooks + 1
    /\ pending' = deferred \o <<event>>
    /\ deferred' = <<>>
    /\ calls' = <<>>
    /\ app_data' = data
    /\ committed' = [stored |-> stored, deferred |-> deferred, app_data |-> data]
    /\ UNCHANGED <<stored, slurmctld, slurm_conf_file, cgroup_conf_file, status, exc,
                   slurm_config, slurm_conf, snap_conf, pc, is_container>>

\* a handler returns: its changes stand and the events it emitted are handled next;
\* or it raises: the dispatch stops where it is
Finish(self, emitted) ==
    /\ stored' = self.stored
    /\ slurmctld' = self.slurmctld
    /\ slurm_conf_file' = self.slurm_conf_file
    /\ cgroup_conf_file' = self.cgroup_conf_file
    /\ app_data' = self.app_data
    /\ status' = self.status
    /\ calls' = self.calls
    /\ deferred' = self.deferred
    /\ exc' = self.exc
    /\ slurm_config' = self.slurm_config
    /\ slurm_conf' = self.slurm_conf
    /\ pending' = IF self.exc # "" THEN pending ELSE emitted \o Tail(pending)
    /\ committed' = IF self.exc = "" /\ emitted \o Tail(pending) = <<>>
                    THEN NoSnapshot ELSE committed
    /\ UNCHANGED <<environment, snap_conf, pc>>

\* the call `self._on_write_slurm_conf(event)` a handler ends with
WriteCall(event) == [name |-> "_on_write_slurm_conf", event |-> event]

(* hooks *)

HookInstall ==
    /\ hooks = 0
    /\ Dispatch([name |-> "install"], app_data)
    /\ UNCHANGED <<config, relations, is_leader, slurmdbd, slurmrestd>>

HookUpdateStatus ==
    /\ hooks > 0
    /\ Dispatch([name |-> "update_status"], app_data)
    /\ UNCHANGED <<config, relations, is_leader, slurmdbd, slurmrestd>>

HookConfigChanged ==
    /\ hooks > 0
    /\ config' \in CharmConfigs
    /\ Dispatch([name |-> "config_changed"], app_data)
    /\ UNCHANGED <<relations, is_leader, slurmdbd, slurmrestd>>

HookSlurmdRelationCreated ==
    /\ hooks > 0
    /\ Len(relations) < MaxRelations
    /\ relations' = Append(relations, [partition |-> JNone, units |-> <<>>])
    /\ Dispatch([name |-> "slurmd_relation_created", relation |-> Len(relations) + 1],
                [app_data EXCEPT !.slurmd = Append(@, JNone)])
    /\ UNCHANGED <<config, is_leader, slurmdbd, slurmrestd>>

HookSlurmdRelationChanged ==
    /\ hooks > 0
    /\ \E i \in DOMAIN relations, data \in SlurmdData, u \in 0..MaxUnits :
        /\ u <= Len(data.units)
        /\ relations' = [relations EXCEPT ![i] = data]
        /\ Dispatch([name |-> "slurmd_relation_changed", relation |-> i, unit |-> u], app_data)
    /\ UNCHANGED <<config, is_leader, slurmdbd, slurmrestd>>

HookSlurmdRelationDeparted ==
    /\ hooks > 0
    /\ \E i \in DOMAIN relations :
        \E u \in DOMAIN relations[i].units :
            /\ relations' = [relations EXCEPT ![i].units = Remove(@, u)]
            /\ Dispatch([name |-> "slurmd_relation_departed", relation |-> i], app_data)
    /\ UNCHANGED <<config, is_leader, slurmdbd, slurmrestd>>

HookSlurmdRelationBroken ==
    /\ hooks > 0
    /\ \E i \in DOMAIN relations :
        /\ relations' = Remove(relations, i)
        /\ Dispatch([name |-> "slurmd_relation_broken", relation |-> i],
                    [app_data EXCEPT !.slurmd = Remove(@, i)])
    /\ UNCHANGED <<config, is_leader, slurmdbd, slurmrestd>>

HookSlurmdbdRelationCreated ==
    /\ hooks > 0
    /\ ~slurmdbd.joined
    /\ slurmdbd' = [joined |-> TRUE, slurmdbd_host |-> <<>>]
    /\ Dispatch([name |-> "slurmdbd_relation_created"], [app_data EXCEPT !.slurmdbd = JNone])
    /\ UNCHANGED <<config, relations, is_leader, slurmrestd>>

HookSlurmdbdRelationChanged ==
    /\ hooks > 0
    /\ slurmdbd.joined
    /\ \E host \in PublishedHosts : slurmdbd' = [slurmdbd EXCEPT !.slurmdbd_host = host]
    /\ Dispatch([name |-> "slurmdbd_relation_changed"], app_data)
    /\ UNCHANGED <<config, relations, is_leader, slurmrestd>>

HookSlurmdbdRelationBroken ==
    /\ hooks > 0
    /\ slurmdbd.joined
    /\ slurmdbd' = [joined |-> FALSE, slurmdbd_host |-> <<>>]
    /\ Dispatch([name |-> "slurmdbd_relation_broken"], app_data)
    /\ UNCHANGED <<config, relations, is_leader, slurmrestd>>

HookSlurmrestdRelationCreated ==
    /\ hooks > 0
    /\ ~slurmrestd
    /\ slurmrestd' = TRUE
    /\ Dispatch([name |-> "slurmrestd_relation_created"],
                [app_data EXCEPT !.slurmrestd = no_app_data.slurmrestd])
    /\ UNCHANGED <<config, relations, is_leader, slurmdbd>>

HookSlurmrestdRelationBroken ==
    /\ hooks > 0
    /\ slurmrestd
    /\ slurmrestd' = FALSE
    /\ Dispatch([name |-> "slurmrestd_relation_broken"],
                [app_data EXCEPT !.slurmrestd = no_app_data.slurmrestd])
    /\ UNCHANGED <<config, relations, is_leader, slurmdbd>>

\* leadership changes reach the unit as a hook the charm does not observe
HookLeaderElected ==
    /\ hooks > 0
    /\ ~is_leader
    /\ is_leader' = TRUE
    /\ Dispatch([name |-> "leader_elected"], app_data)
    /\ UNCHANGED <<config, relations, slurmdbd, slurmrestd>>

HookLeaderSettingsChanged ==
    /\ hooks > 0
    /\ is_leader
    /\ is_leader' = FALSE
    /\ Dispatch([name |-> "leader_settings_changed"], app_data)
    /\ UNCHANGED <<config, relations, slurmdbd, slurmrestd>>

(* handler invocations *)

OnInstall ==
    /\ Running
    /\ Head(pending).name = "install"
    /\ \E installed \in BOOLEAN :
        \E self \in {_on_install(Self, Head(pending), installed)} :
            Finish(self, <<WriteCall(Head(pending))>>)

WriteEvents == {"partition_available", "partition_unavailable", "slurmd_available",
                "slurmd_departed"}

\* the event a step of _on_write_slurm_conf is handling
WriteEvent == IF Head(pending).name = "_on_write_slurm_conf"
              THEN Head(pending).event ELSE Head(pending)

WritePass == Running /\ Head(pending).name \in WriteEvents \cup {"_on_write_slurm_conf"}

OnWriteSlurmConf ==
    /\ WritePass
    /\ \E order \in Orders, munged \in BOOLEAN :
        \E self \in {_on_write_slurm_conf(Self, WriteEvent, order, munged)} : Finish(self, <<>>)

OnUpdateStatus ==
    /\ Running
    /\ Head(pending).name = "update_status"
    /\ \E munged \in BOOLEAN : \E self \in {_on_update_status(Self, munged)} : Finish(self, <<>>)

OnConfigChanged ==
    /\ Running
    /\ Head(pending).name = "config_changed"
    /\ \E self \in {_on_config_changed(Self)} :
        Finish(self, IF self.ret THEN <<WriteCall(Head(pending))>> ELSE <<>>)

OnSlurmdbdAvailable ==
    /\ Running
    /\ Head(pending).name = "slurmdbd_available"
    /\ \E self \in {_on_slurmdbd_available(Self, Head(pending))} :
        Finish(self, <<WriteCall(Head(pending))>>)

OnSlurmdbdUnavailable ==
    /\ Running
    /\ Head(pending).name = "slurmdbd_unavailable"
    /\ \E munged \in BOOLEAN :
        \E self \in {_on_slurmdbd_unavailable(Self, munged)} : Finish(self, <<>>)

OnSlurmrestdAvailable ==
    /\ Running
    /\ Head(pending).name = "slurmrestd_available"
    /\ \E order \in Orders, munged \in BOOLEAN :
        \E self \in {_on_slurmrestd_available(Self, Head(pending), order, munged)} :
            Finish(self, <<>>)

OnSlurmdRelationCreated ==
    /\ Running
    /\ Head(pending).name = "slurmd_relation_created"
    /\ \E self \in {Slurmd_on_relation_created(Self, Head(pending))} : Finish(self, <<>>)

OnSlurmdRelationChanged ==
    /\ Running
    /\ Head(pending).name = "slurmd_relation_changed"
    /\ \E order \in Orders :
        \E self \in {Slurmd_on_relation_changed(Self, Head(pending), order)} :
            Finish(self, self.ret)

OnSlurmdRelationDeparted ==
    /\ Running
    /\ Head(pending).name = "slurmd_relation_departed"
    /\ \E self \in {Slurmd_on_relation_departed(Self)} : Finish(self, self.ret)

OnSlurmdRelationBroken ==
    /\ Running
    /\ Head(pending).name = "slurmd_relation_broken"
    /\ \E self \in {Slurmd_on_relation_broken(Self)} : Finish(self, self.ret)

OnSlurmdbdRelationCreated ==
    /\ Running
    /\ Head(pending).name = "slurmdbd_relation_created"
    /\ \E self \in {Slurmdbd_on_relation_created(Self, Head(pending))} : Finish(self, <<>>)

OnSlurmdbdRelationChanged ==
    /\ Running
    /\ Head(pending).name = "slurmdbd_relation_changed"
    /\ \E self \in {Slurmdbd_on_relation_changed(Self, Head(pending))} : Finish(self, self.ret)

OnSlurmdbdRelationBroken ==
    /\ Running
    /\ Head(pending).name = "slurmdbd_relation_broken"
    /\ \E self \in {Slurmdbd_on_relation_broken(Self)} : Finish(self, self.ret)

OnSlurmrestdRelationCreated ==
    /\ Running
    /\ Head(pending).name = "slurmrestd_relation_created"
    /\ \E self \in {Slurmrestd_on_relation_created(Self, Head(pending))} : Finish(self, self.ret)

\* Slurmrestd._on_relation_broken emits slurmrestd_unavailable, which nothing observes
OnSlurmrestdRelationBroken ==
    /\ Running
    /\ Head(pending).name = "slurmrestd_relation_broken"
    /\ \E self \in {Self} : Finish(self, <<>>)

\* an event no handler observes
OnUnobserved ==
    /\ Running
    /\ Head(pending).name \in {"leader_elected", "leader_settings_changed"}
    /\ \E self \in {Self} : Finish(self, <<>>)

\* the dispatch ends on the exception: nothing of it is committed
Abort ==
    /\ exc # ""
    /\ pc = "charm"
    /\ exc' = ""
    /\ pending' = <<>>
    /\ stored' = committed.stored
    /\ deferred' = committed.deferred
    /\ app_data' = committed.app_data
    /\ committed' = NoSnapshot
    /\ status' = "Error"
    /\ UNCHANGED <<environment, slurmctld, slurm_conf_file, cgroup_conf_file, calls,
                   slurm_config, slurm_conf, snap_conf, pc>>

Next ==
    \/ HookInstall \/ HookUpdateStatus \/ HookConfigChanged
    \/ HookSlurmdRelationCreated \/ HookSlurmdRelationChanged
    \/ HookSlurmdRelationDeparted \/ HookSlurmdRelationBroken
    \/ HookSlurmdbdRelationCreated \/ HookSlurmdbdRelationChanged
    \/ HookSlurmdbdRelationBroken
    \/ HookSlurmrestdRelationCreated \/ HookSlurmrestdRelationBroken
    \/ HookLeaderElected \/ HookLeaderSettingsChanged
    \/ OnInstall \/ OnWriteSlurmConf \/ OnUpdateStatus \/ OnConfigChanged
    \/ OnSlurmdbdAvailable \/ OnSlurmdbdUnavailable \/ OnSlurmrestdAvailable
    \/ OnSlurmdRelationCreated \/ OnSlurmdRelationChanged
    \/ OnSlurmdRelationDeparted \/ OnSlurmdRelationBroken
    \/ OnSlurmdbdRelationCreated \/ OnSlurmdbdRelationChanged \/ OnSlurmdbdRelationBroken
    \/ OnSlurmrestdRelationCreated \/ OnSlurmrestdRelationBroken \/ OnUnobserved
    \/ Abort

Spec == InitCharm /\ [][Next]_vars

----------------------------------------------------------------------------
(* What a slurm-conf-parameters text says, read off the text itself *)

UserText == IF is_set("slurm-conf-parameters") THEN config["slurm-conf-parameters"] ELSE <<>>
TextLines == split(UserText, NL)
\* empty, whitespace only, or a comment
Ignorable(line) == \/ \A i \in DOMAIN line : line[i] \in Whitespace
                   \/ line[1] = HASH
Surviving == SelectSeq(TextLines, LAMBDA line : ~Ignorable(line))
HasEq(line) == \E i \in DOMAIN line : line[i] = EQ
FirstEq(line) == CHOOSE i \in DOMAIN line : line[i] = EQ /\ \A j \in 1..(i - 1) : line[j] # EQ
KeyOf(line) == SubSeq(line, 1, FirstEq(line) - 1)
ValueOf(line) == SubSeq(line, FirstEq(line) + 1, Len(line))
WellFormed == \A i \in DOMAIN Surviving : HasEq(Surviving[i])
\* the text sets key K, and line i is the last to do so
SetsAt(i, K) ==
    /\ HasEq(Surviving[i]) /\ KeyOf(Surviving[i]) = K
    /\ \A j \in DOMAIN Surviving : (HasEq(Surviving[j]) /\ KeyOf(Surviving[j]) = K) => j <= i
UserKeys == {KeyOf(Surviving[i]) : i \in {j \in DOMAIN Surviving : HasEq(Surviving[j])}}

\* _assemble_slurm_conf has returned a document built from the inputs of this state
Assembled == pc = "assembled" /\ slurm_config.ok
\* _assemble_slurm_conf has raised
AssemblyFault == pc = "assembled" /\ ~slurm_config.ok

InventoryKeys == {<<"partitions">>, <<"nodes">>, <<"down_nodes">>}
AccountingKeys == {<<"AccountingStorageHost">>, <<"AccountingStorageType">>,
                   <<"AccountingStoragePass">>, <<"AccountingStoragePort">>}
Flags(value) == Range(split(value, COMMA))

----------------------------------------------------------------------------
(* Claims *)

\* C3: every global key K other than SlurmctldParameters that the user text sets
\* to V is mapped to V by the assembled document, whatever the defaults, the
\* accounting parameters or the computed entries give K; a key the user does not
\* set keeps its lower-precedence value.
C3_UserOverrideWins ==
    Assembled =>
        /\ \A i \in DOMAIN Surviving :
              \A K \in {KeyOf(Surviving[i])} \ {<<"SlurmctldParameters">>} :
                  SetsAt(i, K) =>
                      K \in DOMAIN slurm_config.val /\ slurm_config.val[K] = ValueOf(Surviving[i])
        /\ \A K \in (DOMAIN CHARM_MAINTAINED_SLURM_CONF_PARAMETERS) \ UserKeys :
              slurm_config.val[K] = CHARM_MAINTAINED_SLURM_CONF_PARAMETERS[K]

\* C4: a surviving line K=V whose V itself contains "=" maps K to the whole of V,
\* everything after the first "=".
C4_ValueKeepsLaterEquals ==
    Assembled =>
        \A i \in DOMAIN Surviving :
            (HasEq(Surviving[i]) /\ HasEq(ValueOf(Surviving[i]))
                /\ SetsAt(i, KeyOf(Surviving[i]))) =>
                slurm_config.val[KeyOf(Surviving[i])] = ValueOf(Surviving[i])

\* C5: an empty, whitespace-only or "#" line contributes no key and raises no
\* fault; every other well-formed Key=Value line contributes exactly its key.
C5_IgnorableLinesContributeNothing ==
    /\ WellFormed =>
          /\ _get_user_supplied_parameters.ok
          /\ DOMAIN _get_user_supplied_parameters.val = UserKeys
    /\ Assembled =>
          /\ UserKeys \subseteq DOMAIN slurm_config.val
          /\ DOMAIN slurm_config.val \subseteq
                 UserKeys \cup InventoryKeys \cup AccountingKeys
                 \cup DOMAIN CHARM_MAINTAINED_SLURM_CONF_PARAMETERS
                 \cup {<<"ClusterName">>, <<"SlurmctldAddr">>, <<"SlurmctldHost">>,
                       <<"ProctrackType">>}
C5_Witness ==
    /\ Assembled
    /\ \E i \in DOMAIN TextLines : Ignorable(TextLines[i]) /\ Len(TextLines[i]) > 0
    /\ UserKeys # {}

\* C6: a surviving line without "=" makes _assemble_slurm_conf fail; no document
\* is returned, not even one built from the well-formed lines.
C6_MalformedLineFaults ==
    (pc = "assembled" /\ ~WellFormed) => ~slurm_config.ok
C6_Witness == AssemblyFault /\ ~WellFormed /\ UserKeys # {}

\* C8: SlurmctldParameters of the assembled document, split on "," and taken as a
\* set, is the union of the default's flags and the flags of the user's value;
\* with no user value it is the default's flags; supplying it raises no fault.
C8_SlurmctldParametersUnion ==
    LET K == <<"SlurmctldParameters">>
        default == Flags(CHARM_MAINTAINED_SLURM_CONF_PARAMETERS[K])
    IN  /\ Assembled =>
              /\ K \notin UserKeys => Flags(slurm_config.val[K]) = default
              /\ \A i \in DOMAIN Surviving : SetsAt(i, K) =>
                     Flags(slurm_config.val[K]) = default \cup Flags(ValueOf(Surviving[i]))
        /\ (pc = "assembled" /\ K \in UserKeys /\ WellFormed
                /\ \A order \in Orders : get_new_nodes_and_nodes_and_partitions(order).ok)
              => slurm_config.ok

\* C9: the assembled document has the accounting keys if and only if stored
\* slurmdbd_host is non-empty; when present, AccountingStorageHost is the stored host.
C9_AccountingKeysIffHost ==
    Assembled =>
        /\ \A K \in AccountingKeys :
              K \in DOMAIN slurm_config.val <=> stored.slurmdbd_host # <<>>
        /\ stored.slurmdbd_host # <<>> =>
              slurm_config.val[<<"AccountingStorageHost">>] = stored.slurmdbd_host

\* C9 as amended: the same for every accounting key that the user text does not
\* set itself; a key the user text sets is present with the user's value.
C9_AccountingKeysIffHostUnlessUserSet ==
    Assembled =>
        /\ \A K \in AccountingKeys \ UserKeys :
              /\ K \in DOMAIN slurm_config.val <=> stored.slurmdbd_host # <<>>
              /\ (K = <<"AccountingStorageHost">> /\ stored.slurmdbd_host # <<>>) =>
                     slurm_config.val[K] = stored.slurmdbd_host
              /\ K \in DOMAIN slurm_config.val => slurm_config.val[K] # <<>>
        /\ \A K \in AccountingKeys \cap UserKeys : K \in DOMAIN slurm_config.val
C9_Witness ==
    /\ Assembled /\ stored.slurmdbd_host # <<>>
    /\ AccountingKeys \cap UserKeys = {}
    /\ AccountingKeys \subseteq DOMAIN slurm_config.val

----------------------------------------------------------------------------
(* What the slurmd relation data says, read off the data itself *)

\* the relations whose application has published a partition fragment
Publishing == {i \in DOMAIN relations :
                  relations[i].partition.t = "json" /\ Len(relations[i].partition.v) > 0}
\* the units, of any relation, that have published a node with its parameters
HasNode(i, j) ==
    LET node == relations[i].units[j]
    IN  /\ node.t = "json" /\ "node_parameters" \in DOMAIN node.v
        /\ "NodeName" \in DOMAIN node.v["node_parameters"]
UnitsOf(I) == {u \in UNION {{<<i, j>> : j \in DOMAIN relations[i].units} : i \in I} :
                  HasNode(u[1], u[2])}
NodeOf(u) == relations[u[1]].units[u[2]].v
NameOf(u) == NodeOf(u)["node_parameters"]["NodeName"]
\* the names of the contributed nodes, and of those flagged new
Contributed == {NameOf(u) : u \in UnitsOf(Publishing)}
FlaggedNew == {NameOf(u) : u \in {v \in UnitsOf(Publishing) : NodeOf(v)["new_node"]}}
\* the inventory part of the assembled document
DocPartitions == slurm_config.val[<<"partitions">>]
DocNodes == slurm_config.val[<<"nodes">>]
DocDownNodes == slurm_config.val[<<"down_nodes">>]

\* C11: with a contributed node flagged new there is exactly one DownNodes
\* grouping, State DOWN, Reason "New node.", whose members are, without
\* duplicates, the names flagged new; with none flagged new down_nodes is empty;
\* a name not flagged new is no member but is a key of the nodes mapping.
C11_OneGroupingOfNewNodes ==
    Assembled =>
        /\ FlaggedNew # {} =>
              /\ Len(DocDownNodes) = 1
              /\ DocDownNodes[1]["State"] = <<"DOWN">>
              /\ DocDownNodes[1]["Reason"] = <<"New", SP, "node.">>
              /\ Range(DocDownNodes[1]["DownNodes"]) = FlaggedNew
              /\ Len(DocDownNodes[1]["DownNodes"]) = Cardinality(FlaggedNew)
        /\ FlaggedNew = {} => DocDownNodes = <<>>
        /\ \A name \in Contributed \ FlaggedNew :
              /\ \A g \in DOMAIN DocDownNodes : name \notin Range(DocDownNodes[g]["DownNodes"])
              /\ has(DocNodes, name)
C11_Witness ==
    /\ Assembled
    /\ Cardinality(FlaggedNew) = 2
    /\ Len(DocDownNodes) = 1
C11_WitnessMixed ==
    /\ Assembled
    /\ FlaggedNew # {} /\ Contributed \ FlaggedNew # {}
    /\ Len(DocDownNodes) = 1

\* the partition fragments of relations I: name and parameters, with the relation
Fragments(I) == UNION {{<<i, k>> : k \in DOMAIN relations[i].partition.v} : i \in I}
FragmentName(f) == relations[f[1]].partition.v[f[2]][1]
FragmentParameters(f) == relations[f[1]].partition.v[f[2]][2]
Unpublished == {i \in DOMAIN relations : relations[i].partition.t = "none"}

\* C12: a relation without a partition fragment adds no partition, no node and
\* no new-node name, whatever its units have published; every fragment of the
\* other relations is in the document with the nodes of its own units.
C12_UnpublishedRelationContributesNothing ==
    Assembled =>
        /\ Range(keys(DocPartitions)) = {FragmentName(f) : f \in Fragments(Publishing)}
        /\ Range(keys(DocNodes)) = Contributed
        /\ \A g \in DOMAIN DocDownNodes : Range(DocDownNodes[g]["DownNodes"]) = FlaggedNew
        /\ \A f \in Fragments(Publishing) :
              (\A h \in Fragments(Publishing) : FragmentName(h) = FragmentName(f) => h = f) =>
                  LET partition == get(DocPartitions, FragmentName(f))
                  IN  /\ Range(partition["Nodes"]) = {NameOf(u) : u \in UnitsOf({f[1]})}
                      /\ \A k \in DOMAIN FragmentParameters(f) \ {"Nodes", "Default"} :
                            partition[k] = FragmentParameters(f)[k]
C12_Witness ==
    /\ Assembled
    /\ Publishing # {}
    /\ \E u \in UnitsOf(Unpublished) : NameOf(u) \notin Contributed /\ NodeOf(u)["new_node"]
    /\ Len(DocNodes) > 0

\* the configured default-partition names this fragment
IsDefault(f) == is_set("default-partition") /\ config["default-partition"] = FragmentName(f)

\* C13: a partition named by default-partition has Default = YES; any other
\* partition has the Default its relation data gave it, or none; with
\* default-partition unset that is every partition.
C13_DefaultPartitionStamped ==
    Assembled =>
        \A f \in Fragments(Publishing) :
            (\A h \in Fragments(Publishing) : FragmentName(h) = FragmentName(f) => h = f) =>
                LET partition == get(DocPartitions, FragmentName(f))
                    given == FragmentParameters(f)
                IN  IF IsDefault(f) THEN partition["Default"] = <<"YES">>
                    ELSE /\ "Default" \in DOMAIN partition <=> "Default" \in DOMAIN given
                         /\ "Default" \in DOMAIN given => partition["Default"] = given["Default"]
C13_Witness ==
    /\ Assembled
    /\ \E f, h \in Fragments(Publishing) :
           /\ IsDefault(f) /\ ~IsDefault(h)
           /\ get(DocPartitions, FragmentName(f))["Default"] = <<"YES">>
           /\ "Default" \notin DOMAIN get(DocPartitions, FragmentName(h))
C13_WitnessUnset ==
    /\ Assembled /\ ~is_set("default-partition") /\ Len(DocPartitions) = 2

\* the flat text as its lines, and the lines of its Parameters section: those after
\* the first header, up to the blank line that ends the section
RenderedLines == split(slurm_conf.val, NL)
ParametersSection ==
    LET end == CHOOSE n \in 2..Len(RenderedLines) :
                   RenderedLines[n] = <<>> /\ \A m \in 2..(n - 1) : RenderedLines[m] # <<>>
    IN  SubSeq(RenderedLines, 2, end - 1)

\* C1: the text slurm_conf_as_string returns has exactly four "#" lines, in the
\* order "# Parameters", "# Partitions", "# Nodes", "# DownNodes".
C1_FourSectionHeaders ==
    slurm_conf.ok =>
        SelectSeq(RenderedLines, LAMBDA line : startswith(line, HASH))
            = << <<HASH, SP, "Parameters">>, <<HASH, SP, "Partitions">>,
                 <<HASH, SP, "Nodes">>, <<HASH, SP, "DownNodes">> >>
C1_Witness ==
    /\ slurm_conf.ok
    /\ Len(slurm_config.val[<<"partitions">>]) > 0
    /\ Len(slurm_config.val[<<"nodes">>]) > 0
    /\ Len(slurm_config.val[<<"down_nodes">>]) > 0

\* C2: in the Parameters section an unset catalog parameter F has no line "F=...",
\* a parameter set to V has exactly one line, "F=V", and the lines follow the
\* catalog's declaration order.
C2_ParameterLines ==
    slurm_conf.ok =>
        LET body == ParametersSection
            doc == slurm_config.val
        IN  \* one line per set parameter and none for an unset one, in catalog order
            /\ [n \in DOMAIN body |-> body[n][1]]
                   = SelectSeq(ParametersFields, LAMBDA F : <<F>> \in DOMAIN doc)
            \* the line of F is F=V
            /\ \A n \in DOMAIN body : body[n] = <<body[n][1], EQ>> \o doc[<<body[n][1]>>]
C2_Witness ==
    /\ slurm_conf.ok
    /\ Len(ParametersSection) >= 2
    /\ \E n \in DOMAIN ParametersSection : Len(ParametersSection[n]) > 3

----------------------------------------------------------------------------
(* Claims about the write pass of the charm *)

\* the calls a step adds to the record of the dispatch
NewCalls == SubSeq(calls', Len(calls) + 1, Len(calls'))

\* the calls by which a write pass acts on slurmctld, its files, the nodes and slurmrestd
PassCalls == {"stop_slurmctld", "write_slurm_conf", "write_cgroup_conf", "start_slurmctld",
              "scontrol", "set_slurm_config_on_app_relation_data"}

\* a step of _on_write_slurm_conf in which _assemble_slurm_conf raises
AssemblyFaults == WritePass /\ exc' # "" /\ ~slurm_config'.ok /\ slurm_config'.exc = exc'

\* C7: all-or-nothing write pass.  When the assembly raises inside
\* _on_write_slurm_conf (a malformed override line, malformed relation JSON), that
\* pass does not stop slurmctld, writes neither slurm.conf nor cgroup.conf, resumes
\* no node, leaves stored new_nodes as it was and publishes nothing to slurmrestd.
C7_AllOrNothingWritePass ==
    [][AssemblyFaults =>
          /\ slurmctld' = slurmctld
          /\ slurm_conf_file' = slurm_conf_file
          /\ cgroup_conf_file' = cgroup_conf_file
          /\ stored'.new_nodes = stored.new_nodes
          /\ app_data' = app_data
          /\ \A i \in DOMAIN NewCalls : NewCalls[i].cmd \notin PassCalls]_vars

\* a write pass has just been abandoned on malformed relation JSON, on a unit whose
\* slurmctld runs with a slurm.conf written by an earlier pass, with a new node
\* recorded and slurmrestd joined
C7_Witness ==
    /\ pc = "charm"
    /\ exc = "JSONDecodeError"
    /\ ~slurm_config.ok
    /\ pending # <<>>
    /\ Head(pending).name \in WriteEvents \cup {"_on_write_slurm_conf"}
    /\ slurmctld = "active"
    /\ slurm_conf_file.ok
    /\ stored.new_nodes # <<>>
    /\ slurmrestd
    /\ \A i \in DOMAIN calls : calls[i].cmd \notin PassCalls

\* the same for a malformed line of slurm-conf-parameters
C7_WitnessOverride ==
    /\ pc = "charm"
    /\ exc = "IndexError"
    /\ ~slurm_config.ok
    /\ pending # <<>>
    /\ Head(pending).name = "_on_write_slurm_conf"
    /\ slurmctld = "active"
    /\ slurm_conf_file.ok

----------------------------------------------------------------------------
(* Claims about the two renderings of a document *)

\* the lines of a section of the flat text: those after its header, up to the
\* blank line or the end of the text that ends the section
Section(name) ==
    LET lines == RenderedLines
        header == CHOOSE n \in DOMAIN lines : lines[n] = <<HASH, SP, name>>
        end == CHOOSE m \in (header + 1)..(Len(lines) + 1) :
                   /\ m = Len(lines) + 1 \/ lines[m] = <<>>
                   /\ \A k \in (header + 1)..(m - 1) : lines[k] # <<>>
    IN  SubSeq(lines, header + 1, end - 1)
Doc == slurm_config.val
SyntheticLine == <<"PartitionName", EQ, "DEFAULT", SP, "Default", EQ, "YES">>

\* C14: for a document without partitions the Partitions section of the flat
\* text is the one line PartitionName=DEFAULT Default=YES and the mapping has
\* partition-name -> DEFAULT and default -> YES; with a partition, neither.
C14_ZeroPartitions ==
    /\ slurm_conf.ok =>
          IF Len(Doc[<<"partitions">>]) = 0
          THEN Section("Partitions") = <<SyntheticLine>>
          ELSE SyntheticLine \notin Range(Section("Partitions"))
    /\ snap_conf.ok =>
          IF Len(Doc[<<"partitions">>]) = 0
          THEN /\ <<"partition-name">> \in DOMAIN snap_conf.val
               /\ snap_conf.val[<<"partition-name">>] = <<"DEFAULT">>
               /\ <<"default">> \in DOMAIN snap_conf.val
               /\ snap_conf.val[<<"default">>] = <<"YES">>
          ELSE /\ <<"partition-name">> \notin DOMAIN snap_conf.val
               /\ <<"default">> \notin DOMAIN snap_conf.val
C14_Witness ==
    /\ slurm_conf.ok /\ snap_conf.ok
    /\ Len(Doc[<<"partitions">>]) = 0
    /\ Len(Doc[<<"nodes">>]) > 0
C14_WitnessWithPartition ==
    /\ slurm_conf.ok /\ snap_conf.ok
    /\ Len(Doc[<<"partitions">>]) > 0

\* sorted(names) for node names: n1 < n2 < ...
Sorted(names) == SelectSeq(EntryNames.n, LAMBDA n : n \in Range(names))
\* the comma-joined list of names
CommaJoined(names) == join(COMMA, [i \in DOMAIN names |-> <<names[i]>>])
StartsWith(line, prefix) == Len(line) >= Len(prefix) /\ SubSeq(line, 1, Len(prefix)) = prefix
\* Nodes of the i-th partition of the document; [] when the fragment has none
NodesOfPartition(i) ==
    LET given == Doc[<<"partitions">>][i][2]
    IN  IF "Nodes" \in DOMAIN given THEN given["Nodes"] ELSE <<>>

\* C15: the line of a partition starts PartitionName=<name> Nodes=<list> where
\* <list> is the partition's node names comma-joined in sorted order, or "" for
\* a partition without nodes; the order of the names is the same whatever order
\* the units' names were collected in.
C15_PartitionNodesSorted ==
    (slurm_conf.ok /\ Len(Doc[<<"partitions">>]) > 0) =>
        \A lines \in {Section("Partitions")} :
            /\ Len(lines) = Len(Doc[<<"partitions">>])
            /\ \A i \in DOMAIN Doc[<<"partitions">>] :
                  StartsWith(lines[i],
                      <<"PartitionName", EQ, Doc[<<"partitions">>][i][1], SP, "Nodes", EQ>>
                      \o (IF Len(NodesOfPartition(i)) = 0 THEN <<QUOTE, QUOTE>>
                          ELSE CommaJoined(Sorted(NodesOfPartition(i))))
                      \o <<SP>>)

\* a text without its SlurmctldParameters line, and the flags of that line
IsFlagsLine(line) == StartsWith(line, <<"SlurmctldParameters", EQ>>)
OtherLines(text) == SelectSeq(split(text, NL), LAMBDA line : ~IsFlagsLine(line))
FlagsOf(text) ==
    UNION {Flags(SubSeq(line, 3, Len(line))) :
              line \in {l \in Range(split(text, NL)) : IsFlagsLine(l)}}

\* C16: a second assembly and rendering of the inputs of this state, in a process
\* of any set iteration order, gives the text of the first, apart from the order
\* of the flags of SlurmctldParameters.
C16_Deterministic ==
    (Assembled /\ slurm_conf.ok) =>
        \A order \in Orders :
            \A again \in {_assemble_slurm_conf(order)} :
                /\ again.ok
                /\ \A text \in {slurm_conf_as_string(again.val)} :
                      /\ text.ok
                      /\ OtherLines(text.val) = OtherLines(slurm_conf.val)
                      /\ FlagsOf(text.val) = FlagsOf(slurm_conf.val)

\* the line has a token k=
HasToken(line, k) == \E n \in 1..(Len(line) - 1) : line[n] = k /\ line[n + 1] = EQ
\* text that stands for no value
NoValue == {<<>>, <<"None">>, <<"null">>}
\* the optional fields of each record; PartitionName, NodeName, State and Reason of
\* a grouping are required, and the two lists default to the empty list
OptionalOfPartition == Range(PartitionFields) \ {"PartitionName", "Nodes"}
OptionalOfNode == Range(NodeFields) \ {"NodeName"}

\* C17: an unset optional field of the global parameters, of a partition or of a
\* node has no token in the flat text, and no key in the mapping; no value of
\* the mapping is empty, None or null.
C17_UnsetFieldsOmitted ==
    /\ slurm_conf.ok =>
          /\ \A lines \in {ParametersSection} :
                \A k \in Range(ParametersFields) \ {key[1] : key \in DOMAIN Doc} :
                    \A n \in DOMAIN lines : ~HasToken(lines[n], k)
          /\ Len(Doc[<<"partitions">>]) > 0 =>
                \A lines \in {Section("Partitions")} :
                    \A i \in DOMAIN Doc[<<"partitions">>] :
                        \A k \in OptionalOfPartition \ DOMAIN Doc[<<"partitions">>][i][2] :
                            ~HasToken(lines[i], k)
          /\ \A lines \in {Section("Nodes")} :
                \A i \in DOMAIN Doc[<<"nodes">>] :
                    \A k \in OptionalOfNode \ DOMAIN Doc[<<"nodes">>][i][2] :
                        ~HasToken(lines[i], k)
    /\ snap_conf.ok =>
          /\ \A key \in DOMAIN snap_conf.val : snap_conf.val[key] \notin NoValue
          /\ \A k \in Range(ParametersFields) :
                <<k>> \notin DOMAIN Doc => <<k>> \notin DOMAIN snap_conf.val
          /\ \A i \in DOMAIN Doc[<<"partitions">>] :
                \A k \in OptionalOfPartition \ DOMAIN Doc[<<"partitions">>][i][2] :
                    <<Doc[<<"partitions">>][i][1], DOT, k>> \notin DOMAIN snap_conf.val

\* the list after Nodes= or DownNodes= in a line of the flat text: the tokens
\* between the first k= and the next blank
ListShown(line, k) ==
    LET start == CHOOSE n \in 1..(Len(line) - 1) :
                     /\ line[n] = k /\ line[n + 1] = EQ
                     /\ \A m \in 1..(n - 1) : ~(line[m] = k /\ line[m + 1] = EQ)
        end == CHOOSE m \in (start + 2)..(Len(line) + 1) :
                   /\ m = Len(line) + 1 \/ line[m] = SP
                   /\ \A j \in (start + 2)..(m - 1) : line[j] # SP
    IN  SubSeq(line, start + 2, end - 1)

\* C18: a non-empty list of node names is the comma-joined string of its names
\* in both renderings: <PartitionName>.Nodes of the mapping is what the flat
\* line of the partition shows after Nodes=, and DownNodes of the mapping is
\* what the flat line of a grouping shows after DownNodes=.
C18_NodeListsCommaJoined ==
    (slurm_conf.ok /\ snap_conf.ok) =>
        /\ Len(Doc[<<"partitions">>]) > 0 =>
              \A lines \in {Section("Partitions")} : \A i \in DOMAIN Doc[<<"partitions">>] :
                  Len(NodesOfPartition(i)) > 0 =>
                      /\ ListShown(lines[i], "Nodes")
                             = CommaJoined(NodesOfPartition(i))
                      /\ snap_conf.val[<<Doc[<<"partitions">>][i][1], DOT, "Nodes">>]
                             = CommaJoined(NodesOfPartition(i))
        /\ Len(Doc[<<"down_nodes">>]) > 0 =>
              /\ \A lines \in {Section("DownNodes")} : \A g \in DOMAIN Doc[<<"down_nodes">>] :
                     ListShown(lines[g], "DownNodes")
                         = CommaJoined(Doc[<<"down_nodes">>][g]["DownNodes"])
              /\ \E g \in DOMAIN Doc[<<"down_nodes">>] :
                     snap_conf.val[<<"DownNodes">>]
                         = CommaJoined(Doc[<<"down_nodes">>][g]["DownNodes"])

\* the mapping has, under a key that ends with the field's name, this value
ReadBack(k, value) ==
    \E key \in DOMAIN snap_conf.val : key[Len(key)] = k /\ snap_conf.val[key] = value

\* C19: the NodeName of every node of the document and the value of every set
\* field of every node can be read back from the mapping.
C19_NodesReadBack ==
    snap_conf.ok =>
        \A i \in DOMAIN Doc[<<"nodes">>] :
            /\ ReadBack("NodeName", <<Doc[<<"nodes">>][i][1]>>)
            /\ \A k \in DOMAIN Doc[<<"nodes">>][i][2] :
                  ReadBack(k, Doc[<<"nodes">>][i][2][k])

\* the tokens " k=v" of the listed fields of a record, one field after another
RECURSIVE FieldTokens(_, _)
FieldTokens(fields, given) ==
    IF Len(fields) = 0 THEN <<>>
    ELSE <<SP, fields[1], EQ>> \o given[fields[1]] \o FieldTokens(Tail(fields), given)
\* the set fields of a node other than NodeName, in catalog order
SetFieldsOfNode(i) == SelectSeq(NodeFields, LAMBDA k : k \in DOMAIN Doc[<<"nodes">>][i][2])

C20_WitnessAllSections ==
    /\ slurm_conf.ok
    /\ Len(Doc[<<"partitions">>]) > 0 /\ Len(Doc[<<"nodes">>]) > 0 /\ Len(Doc[<<"down_nodes">>]) > 0

----------------------------------------------------------------------------
(* Claims about what the renderers accept and leave behind *)

RenderReturns == slurm_conf' # slurm_conf /\ slurm_conf'.ok
RenderSnapReturns == snap_conf' # snap_conf /\ snap_conf'.ok

\* C21: when slurm_conf_as_string(D) or slurm_conf_as_snap_conf(D) returns, D still
\* has its partitions, nodes and down_nodes entries and every global parameter, each
\* with the value it had, and rendering D again gives the result just returned.
C21_RenderLeavesDocument ==
    [][(RenderReturns \/ RenderSnapReturns) =>
          /\ slurm_config.ok /\ slurm_config'.ok
          /\ InventoryKeys \subseteq DOMAIN slurm_config'.val
          /\ DOMAIN slurm_config'.val = DOMAIN slurm_config.val
          /\ \A k \in DOMAIN slurm_config.val : slurm_config'.val[k] = slurm_config.val[k]
          /\ RenderReturns => slurm_conf_as_string(slurm_config'.val) = slurm_conf'
          /\ RenderSnapReturns => slurm_conf_as_snap_conf(slurm_config'.val) = snap_conf']_vars

\* both renderers have returned on a document with partitions, nodes and a grouping
C21_Witness ==
    /\ slurm_conf.ok /\ snap_conf.ok /\ slurm_config.ok
    /\ Len(slurm_config.val[<<"partitions">>]) > 0
    /\ Len(slurm_config.val[<<"nodes">>]) > 0
    /\ Len(slurm_config.val[<<"down_nodes">>]) > 0
    /\ DOMAIN slurm_config.val # InventoryKeys

\* the keys of a document that the catalog does not have
UnrecognizedGlobal(doc) == {k \in DOMAIN doc \ InventoryKeys : Len(k) # 1 \/ k[1] \notin Range(ParametersFields)}
UnrecognizedOfPartitions(doc) == UNION {DOMAIN doc[<<"partitions">>][i][2] \ Range(PartitionFields) : i \in DOMAIN doc[<<"partitions">>]}
UnrecognizedOfNodes(doc) == UNION {DOMAIN doc[<<"nodes">>][i][2] \ Range(NodeFields) : i \in DOMAIN doc[<<"nodes">>]}
CarriesUnrecognized(doc) == UnrecognizedGlobal(doc) # {} \/ UnrecognizedOfPartitions(doc) # {} \/ UnrecognizedOfNodes(doc) # {}

C22_WitnessEntry ==
    /\ slurm_config.ok /\ UnrecognizedGlobal(slurm_config.val) = {}
    /\ UnrecognizedOfPartitions(slurm_config.val) \cup UnrecognizedOfNodes(slurm_config.val) # {}
    /\ slurm_conf # Pending /\ snap_conf # Pending

----------------------------------------------------------------------------
(* Claims about the fragments the assembler reads *)

MalformedPartition == \E i \in DOMAIN relations : relations[i].partition.t = "bad"
MalformedNode(I) == \E i \in I : \E j \in DOMAIN relations[i].units : relations[i].units[j].t = "bad"
DecodeFault(r) == ~r.ok /\ r.exc = "JSONDecodeError"

\* C23 as stated: with the partition JSON of any relation or the node JSON of any
\* unit malformed, get_new_nodes_and_nodes_and_partitions raises the decode fault
\* and returns no document.
C23_MalformedFragmentRaises ==
    pc = "assembled" /\ (MalformedPartition \/ MalformedNode(DOMAIN relations)) =>
        \A order \in Orders : DecodeFault(get_new_nodes_and_nodes_and_partitions(order))

\* C23: with the partition JSON of any relation malformed, or the node JSON of any
\* unit of a relation that has published a partition, the call raises the decode
\* fault, which leaves the assembler unless the user text faulted first; the units
\* of a relation that has published no partition are not read, and a malformed
\* node among them alone raises nothing.
C23_MalformedFragmentReadRaises ==
    pc = "assembled" =>
        \A order \in Orders : \A r \in {get_new_nodes_and_nodes_and_partitions(order)} :
            /\ MalformedPartition \/ MalformedNode(Publishing) =>
                  /\ DecodeFault(r)
                  /\ WellFormed => DecodeFault(slurm_config)
            /\ ~MalformedPartition /\ ~MalformedNode(Publishing) /\ MalformedNode(Unpublished) =>
                  /\ r.ok
                  /\ \A g \in DOMAIN r.val[<<"nodes">>] :
                        r.val[<<"nodes">>][g][1] \in {NameOf(u) : u \in UnitsOf(Publishing)}

\* the assembler has met a malformed node beside a well-formed one of the same relation
C23_Witness ==
    /\ pc = "assembled" /\ WellFormed
    /\ ~MalformedPartition /\ MalformedNode(Publishing)
    /\ UnitsOf(Publishing) # {}
    /\ DecodeFault(slurm_config)

\* the assembler has met a malformed partition after a well-formed relation
C23_WitnessPartition ==
    /\ pc = "assembled" /\ WellFormed
    /\ MalformedPartition /\ Publishing # {}
    /\ DecodeFault(slurm_config)

\* the assembler has passed over a malformed node of a relation without partition
C23_WitnessUnread ==
    /\ Assembled
    /\ MalformedNode(Unpublished) /\ Len(DocPartitions) > 0

NoDuplicates(names) == \A i, j \in DOMAIN names : names[i] = names[j] => i = j

\* C24: in every document get_new_nodes_and_nodes_and_partitions returns, each name
\* in a partition's Nodes list and each member of a DownNodes grouping is a key of
\* the nodes mapping, and no Nodes list holds a name twice.
C24_MembersAreNodes ==
    pc = "assembled" =>
        \A order \in Orders : \A r \in {get_new_nodes_and_nodes_and_partitions(order)} :
            r.ok =>
                \A known \in {Range(keys(r.val[<<"nodes">>]))} :
                    /\ \A i \in DOMAIN r.val[<<"partitions">>] :
                          \A nodes \in {r.val[<<"partitions">>][i][2]["Nodes"]} :
                              Range(nodes) \subseteq known /\ NoDuplicates(nodes)
                    /\ \A g \in DOMAIN r.val[<<"down_nodes">>] :
                          Range(r.val[<<"down_nodes">>][g]["DownNodes"]) \subseteq known

\* a document assembled from units that publish one NodeName twice
C24_Witness ==
    /\ Assembled
    /\ \E u, v \in UnitsOf(Publishing) : u # v /\ NameOf(u) = NameOf(v)
    /\ \E i \in DOMAIN DocPartitions : Len(DocPartitions[i][2]["Nodes"]) = 2
    /\ Len(DocDownNodes) = 1 /\ Len(DocNodes) = 2

\* the relations that publish a partition of the name of fragment f
Namesakes(f) == {h[1] : h \in {g \in Fragments(Publishing) : FragmentName(g) = FragmentName(f)}}

\* C25: a partition's Nodes list holds the nodes contributed by the units of every
\* relation that publishes a partition of its name.
C25_SameNameMerged ==
    Assembled =>
        \A f \in Fragments(Publishing) :
            {NameOf(u) : u \in UnitsOf(Namesakes(f))}
                \subseteq Range(get(DocPartitions, FragmentName(f))["Nodes"])

----------------------------------------------------------------------------
(* Claims about the gates and the steps of a write pass *)

\* C26: on a unit that is not the leader a step of _on_write_slurm_conf, whatever
\* the event, makes no call (no stop or start of slurmctld, no write of slurm.conf
\* or cgroup.conf, no scontrol, no publication to slurmrestd), leaves the stored
\* state, the files, the service and the unit status as they are, and defers nothing.
C26_LeaderGate ==
    [][WritePass /\ ~is_leader =>
          /\ calls' = calls
          /\ slurmctld' = slurmctld
          /\ slurm_conf_file' = slurm_conf_file
          /\ cgroup_conf_file' = cgroup_conf_file
          /\ stored' = stored
          /\ app_data' = app_data
          /\ status' = status
          /\ deferred' = deferred
          /\ exc' = ""]_vars

\* a unit that installed slurmctld as the leader and is the leader no more has
\* handled slurmd_available, emitted for a new node ahead of partition_available
C26_Witness ==
    /\ pc = "charm" /\ ~is_leader /\ exc = ""
    /\ stored.slurm_installed = TRUE
    /\ pending = <<[name |-> "partition_available"]>>
    /\ stored.new_nodes # committed.stored.new_nodes
    /\ \E i \in DOMAIN relations : relations[i].partition.t = "json"
    /\ calls = <<>> /\ deferred = <<>>

\* a step of _on_write_slurm_conf on the leader in which _check_status returns False:
\* slurm is not installed, or check_munged is called and finds munge not working
NotReady ==
    /\ WritePass /\ is_leader
    /\ \/ stored.slurm_installed # TRUE
       \/ NewCalls # <<>> /\ NewCalls[1] = Call("check_munged", <<"False">>)

\* C27: when _check_status returns False on the leader, _on_write_slurm_conf defers
\* the event and returns: no assembly, no stop or start of slurmctld, no file
\* written, nothing published, the stored state as it was.
C27_ReadinessGate ==
    [][NotReady =>
          /\ WriteEvent \in Range(deferred')
          /\ exc' = ""
          /\ slurm_config' = slurm_config
          /\ slurmctld' = slurmctld
          /\ slurm_conf_file' = slurm_conf_file
          /\ cgroup_conf_file' = cgroup_conf_file
          /\ stored' = stored
          /\ app_data' = app_data
          /\ \A i \in DOMAIN NewCalls : NewCalls[i].cmd \notin PassCalls]_vars

\* the leader, with slurm installed, slurmctld running and a partition published,
\* has found munge not working and deferred the event of a write pass
C27_Witness ==
    /\ pc = "charm" /\ is_leader /\ exc = ""
    /\ stored.slurm_installed = TRUE /\ slurmctld = "active"
    /\ \E i \in DOMAIN relations : relations[i].partition.t = "json"
    /\ calls # <<>> /\ calls[Len(calls)] = Call("check_munged", <<"False">>)
    /\ deferred # <<>> /\ deferred[Len(deferred)].name \in WriteEvents

\* the leader, with slurm not installed, has deferred the event of a write pass
C27_WitnessNotInstalled ==
    /\ pc = "charm" /\ is_leader /\ exc = ""
    /\ stored.slurm_installed # TRUE
    /\ calls = <<>>
    /\ deferred # <<>> /\ deferred[Len(deferred)].name \in WriteEvents

\* the commands of a record of calls
Commands(record) == [i \in DOMAIN record |-> record[i].cmd]

\* the names in the "New node." groupings of a document
DocNewNodes(doc) ==
    UNION {Range(doc[<<"down_nodes">>][g]["DownNodes"]) :
              g \in {h \in DOMAIN doc[<<"down_nodes">>] :
                        doc[<<"down_nodes">>][h]["Reason"] = <<"New", SP, "node.">>}}

\* a step of _on_write_slurm_conf on the leader that passes _check_status and assembles
\* a document; the document is slurm_config'
Assembles ==
    /\ WritePass /\ is_leader
    /\ NewCalls # <<>> /\ NewCalls[1] = Call("check_munged", <<"True">>)
    /\ slurm_config'.ok /\ DOMAIN slurm_config'.val # {}

\* the stored new nodes that the document of the step no longer lists as new
Transitioning == {n \in Range(stored.new_nodes) : n \notin DocNewNodes(slurm_config'.val)}

CgroupConfigured == is_set("cgroup-parameters") /\ config["cgroup-parameters"] # <<>>

\* the commands of a complete pass, read off the configuration, the stored state,
\* the document and the slurmrestd relation
StepsOfPass ==
    <<"stop_slurmctld", "write_slurm_conf">>
    \o (IF CgroupConfigured THEN <<"write_cgroup_conf">> ELSE <<>>)
    \o <<"start_slurmctld", "scontrol">>
    \o (IF Transitioning # {} THEN <<"scontrol">> ELSE <<>>)
    \o (IF slurmrestd THEN <<"set_slurm_config_on_app_relation_data">> ELSE <<>>)

\* the service is stopped, by the calls of record before position i, when call i is made
StoppedAt(record, i) ==
    \E j \in 1..(i - 1) :
        /\ record[j].cmd = "stop_slurmctld"
        /\ \A k \in (j + 1)..(i - 1) : record[k].cmd # "start_slurmctld"

\* C28: a write pass that assembles a document makes its calls in the order stop
\* slurmctld, write slurm.conf, write cgroup.conf if configured, start slurmctld,
\* scontrol reconfigure, the resumption of nodes, the publication to slurmrestd; a
\* pass that completes leaves slurmctld started; and no step writes slurm.conf
\* unless it has stopped slurmctld and not started it again.
C28_StepsInOrder ==
    [][/\ Assembles /\ exc' = "" =>
             /\ Commands(Tail(NewCalls)) = StepsOfPass
             /\ NewCalls[1 + Len(StepsOfPass) - (IF slurmrestd THEN 1 ELSE 0)
                           - (IF Transitioning # {} THEN 1 ELSE 0)].arg = <<"reconfigure">>
             /\ slurmctld' = "active"
       /\ Assembles /\ exc' # "" =>
             \E n \in 0..Len(StepsOfPass) : Commands(Tail(NewCalls)) = SubSeq(StepsOfPass, 1, n)
       /\ \A i \in DOMAIN NewCalls :
             NewCalls[i].cmd = "write_slurm_conf" => StoppedAt(NewCalls, i)
       /\ slurm_conf_file' # slurm_conf_file /\ slurm_conf_file'.ok =>
             \E i \in DOMAIN NewCalls : NewCalls[i].cmd = "write_slurm_conf"]_vars

\* a pass has completed with cgroup.conf written and the text published to slurmrestd
C28_Witness ==
    /\ pc = "charm" /\ exc = "" /\ slurmctld = "active"
    /\ Len(calls) = 7
    /\ Commands(calls) = <<"check_munged", "stop_slurmctld", "write_slurm_conf",
                           "write_cgroup_conf", "start_slurmctld", "scontrol",
                           "set_slurm_config_on_app_relation_data">>
    /\ slurm_conf_file.ok /\ cgroup_conf_file.ok

\* a pass has completed with nodes resumed after scontrol reconfigure
C28_WitnessResumed ==
    /\ pc = "charm" /\ exc = "" /\ slurmctld = "active"
    /\ Len(calls) >= 6
    /\ Commands(SubSeq(calls, Len(calls) - 5, Len(calls))) =
           <<"check_munged", "stop_slurmctld", "write_slurm_conf", "start_slurmctld",
             "scontrol", "scontrol">>
    /\ calls[Len(calls) - 1].arg = <<"reconfigure">>

\* the positions of a record at which nodes are resumed, and the nodes of such a call
Resumptions(record) ==
    {i \in DOMAIN record : record[i].cmd = "scontrol" /\ record[i].arg # <<"reconfigure">>}
ResumedBy(call) == Range(call.arg) \cap NodeNames

\* the new-node list of a document: the members of its "New node." groupings in order
NewNodeList(doc) ==
    IF DocNewNodes(doc) = {} THEN <<>> ELSE doc[<<"down_nodes">>][1]["DownNodes"]

C29_WitnessLaterPass ==
    /\ pc = "charm" /\ exc = "" /\ is_leader
    /\ \E i \in Resumptions(calls) :
          \E j \in (i + 1)..Len(calls) : calls[j].cmd = "write_slurm_conf"

\* a pass has completed with a stored new node that the document still lists as new
C29_WitnessNone ==
    /\ pc = "charm" /\ exc = "" /\ is_leader
    /\ slurm_config.ok /\ stored.new_nodes # <<>>
    /\ Range(stored.new_nodes) \subseteq DocNewNodes(slurm_config.val)
    /\ calls # <<>> /\ calls[Len(calls)] = Call("scontrol", <<"reconfigure">>)

\* the names that units publish with new_node true, in relations I
PublishedNew(I) == {NameOf(u) : u \in {v \in UnitsOf(I) : NodeOf(v)["new_node"]}}

\* the nodes resumed by the calls of a record
Resumed(record) == UNION {ResumedBy(record[i]) : i \in Resumptions(record)}

C30_WitnessWithdrawn ==
    /\ pc = "charm" /\ exc = "" /\ is_leader /\ slurm_config.ok
    /\ calls # <<>> /\ Len(calls) \in Resumptions(calls)
    /\ PublishedNew(Unpublished) \cap Resumed(calls) # {}

----------------------------------------------------------------------------
(* Claims about the status check and the handlers around the write pass *)

\* a step of a handler that calls _check_status: update-status, slurmdbd_unavailable,
\* and on the leader _on_write_slurm_conf and _on_slurmrestd_available
ChecksStatus ==
    /\ Running
    /\ \/ Head(pending).name \in {"update_status", "slurmdbd_unavailable"}
       \/ is_leader /\ Head(pending).name \in WriteEvents \cup {"_on_write_slurm_conf",
                                                                 "slurmrestd_available"}

\* the event a step defers when its check fails
CheckedEvent == IF Head(pending).name = "_on_write_slurm_conf" THEN WriteEvent ELSE Head(pending)

\* C31: _check_status returns True if and only if stored slurm_installed is True and
\* the munge check passes; the unit status is Blocked('Error installing slurmctld')
\* when not installed (munge is not checked then), Blocked('Error configuring munge
\* key') when installed and munge fails, and Active only when it returns True.
C31_CheckStatus ==
    [][/\ \A munged \in BOOLEAN :
             \A checked \in {_check_status(Self, munged)} :
                 /\ checked.ret = (stored.slurm_installed = TRUE /\ munged)
                 /\ (checked.status = "Active") = checked.ret
       /\ ChecksStatus =>
             /\ stored.slurm_installed # TRUE =>
                   /\ status' = "Blocked: Error installing slurmctld"
                   /\ NewCalls = <<>>
             /\ stored.slurm_installed = TRUE =>
                   /\ NewCalls # <<>> /\ NewCalls[1].cmd = "check_munged"
                   /\ NewCalls[1].arg = <<"False">> =>
                         /\ status' = "Blocked: Error configuring munge key"
                         /\ Len(NewCalls) = 1
                   /\ NewCalls[1].arg = <<"True">> => status' = "Active"
             \* a handler that goes on only when the check returns True
             /\ Head(pending).name \notin {"update_status", "slurmdbd_unavailable"} =>
                   (CheckedEvent \in Range(deferred') \ Range(deferred))
                       = (status' # "Active" /\ CheckedEvent \notin Range(deferred))]_vars

\* update-status has found slurm installed and munge not working
C31_Witness ==
    /\ pc = "charm" /\ exc = "" /\ pending = <<>>
    /\ stored.slurm_installed = TRUE
    /\ calls = <<Call("check_munged", <<"False">>)>>
    /\ status = "Blocked: Error configuring munge key"

\* update-status has found slurm not installed
C31_WitnessNotInstalled ==
    /\ pc = "charm" /\ exc = "" /\ pending = <<>> /\ hooks > 1
    /\ stored.slurm_installed # TRUE
    /\ calls = <<>>
    /\ status = "Blocked: Error installing slurmctld"

\* update-status has found slurm installed and munge working
C31_WitnessActive ==
    /\ pc = "charm" /\ exc = "" /\ pending = <<>>
    /\ stored.slurm_installed = TRUE
    /\ calls = <<Call("check_munged", <<"True">>)>>
    /\ status = "Active"

\* the install event
Install == [name |-> "install"]

\* a step of _on_install in which install() reports failure: the first handler of its
\* dispatch, it records no call
InstallFails == Running /\ Head(pending) = Install /\ calls' = <<>>

\* the step that ends such a run of _on_install: its call of _on_write_slurm_conf
InstallFailed == Running /\ Head(pending) = WriteCall(Install) /\ calls = <<>>

\* C32: when install() reports failure, _on_install ends with the unit status
\* Blocked('Error installing slurmctld') and the install event deferred; it generates
\* and stores no munge key and no JWT key, leaves stored slurm_installed False and
\* writes no slurm.conf.
C32_InstallFailure ==
    [][/\ InstallFails =>
             /\ status' = "Blocked: Error installing slurmctld"
             /\ Install \in Range(deferred')
             /\ stored' = stored
             /\ slurm_conf_file' = slurm_conf_file
             /\ slurmctld' = slurmctld
       /\ InstallFailed =>
             /\ status' = "Blocked: Error installing slurmctld"
             /\ Install \in Range(deferred')
             /\ exc' = ""
             /\ stored' = stored
             /\ stored'.slurm_installed = FALSE
             /\ slurm_conf_file' = slurm_conf_file
             /\ \A i \in DOMAIN NewCalls : NewCalls[i].cmd \notin PassCalls]_vars

\* the relation-created events of the three relations
RelationCreated ==
    {"slurmd_relation_created", "slurmdbd_relation_created", "slurmrestd_relation_created"}

\* the munge keys this application has published: in cluster_info on the slurmd
\* relations and on the slurmdbd relation, as munge_key on the slurmrestd relation
PublishedMungeKeys(data) ==
    {data.slurmd[i].v.munge_key : i \in {j \in DOMAIN data.slurmd : data.slurmd[j].t = "json"}}
    \cup (IF data.slurmdbd.t = "json" THEN {data.slurmdbd.v.munge_key} ELSE {})
    \cup (IF data.slurmrestd.munge_key # "" THEN {data.slurmrestd.munge_key} ELSE {})

\* C33: while stored slurm_installed is False the relation-created handler of each
\* of the three relations defers its event, writes nothing to the application data
\* and emits nothing; a munge key is published on a relation only in a state in
\* which slurm_installed is True, and it is the stored key; slurmrestd_available is
\* emitted only in such a state.
C33_CreatedWaitsForInstall ==
    [][/\ Running /\ Head(pending).name \in RelationCreated /\ stored.slurm_installed # TRUE =>
             /\ Head(pending) \in Range(deferred')
             /\ app_data' = app_data
             /\ calls' = calls
             /\ pending' = Tail(pending)
             /\ exc' = ""
       /\ app_data' # app_data /\ PublishedMungeKeys(app_data') # {} /\ exc' = "" =>
             /\ stored.slurm_installed = TRUE
             /\ PublishedMungeKeys(app_data') = {stored.munge_key}
             /\ stored.munge_key # ""
       /\ PublishedMungeKeys(app_data') # {} => stored'.slurm_installed = TRUE
       /\ \A i \in DOMAIN pending' :
             pending'[i].name = "slurmrestd_available" => stored'.slurm_installed = TRUE]_vars

\* with slurm not installed the relation-created events of all three relations wait,
\* deferred, and nothing is published
C33_Witness ==
    /\ pc = "charm" /\ exc = "" /\ pending = <<>>
    /\ stored.slurm_installed # TRUE
    /\ RelationCreated \subseteq {deferred[i].name : i \in DOMAIN deferred}
    /\ Len(relations) = 1 /\ slurmdbd.joined /\ slurmrestd
    /\ PublishedMungeKeys(app_data) = {}

\* with slurm installed the munge key is on the slurmrestd relation and
\* slurmrestd_available has been emitted
C33_WitnessPublished ==
    /\ pc = "charm" /\ exc = ""
    /\ stored.slurm_installed = TRUE
    /\ pending # <<>> /\ Head(pending).name = "slurmrestd_available"
    /\ app_data.slurmrestd.munge_key = stored.munge_key
    /\ stored.munge_key # ""

\* a step that handles one of the two slurmdbd events
HandlesSlurmdbd(name) == Running /\ Head(pending).name = name

\* each delivery of slurmdbd_available sets the stored slurmdbd_host to the host of
\* the event, on the leader and on any other unit, whatever becomes of the write
\* pass; each delivery of slurmdbd_unavailable sets it to ''; no other handler
\* changes it; a dispatch that ends on an exception leaves the host it found
SlurmdbdHostFollowsDeliveries ==
    [][/\ HandlesSlurmdbd("slurmdbd_available") =>
             /\ stored'.slurmdbd_host = Head(pending).slurmdbd_host
             /\ stored'.slurmdbd_host # <<>>
             /\ exc' = ""
       /\ HandlesSlurmdbd("slurmdbd_unavailable") =>
             /\ stored'.slurmdbd_host = <<>>
             /\ exc' = ""
       /\ exc = "" /\ ~HandlesSlurmdbd("slurmdbd_available")
             /\ ~HandlesSlurmdbd("slurmdbd_unavailable") =>
             stored'.slurmdbd_host = stored.slurmdbd_host
       /\ exc # "" => stored'.slurmdbd_host = committed.stored.slurmdbd_host]_vars

\* slurmdbd_unavailable was the last of the two events: the relation is gone, the
\* hook that broke it has been dispatched before, and the stored host is ''
UnavailableWasLast ==
    /\ Running
    /\ ~slurmdbd.joined
    /\ stored.slurmdbd_host = <<>>
    /\ pending[Len(pending)].name # "slurmdbd_relation_broken"

\* C34: after any sequence of slurmdbd_available(host) and slurmdbd_unavailable
\* events the stored slurmdbd_host is the host of the most recent slurmdbd_available
\* if that event came after the last slurmdbd_unavailable, and '' otherwise, on the
\* leader and on other units and whether or not the write pass is deferred.  Once
\* slurmdbd_unavailable was the last of the two events, no later step makes the
\* stored host anything but ''.
C34_StoredSlurmdbdHost ==
    [][UnavailableWasLast => stored'.slurmdbd_host = <<>>]_vars

\* a step of _on_slurmrestd_available
SlurmrestdAvailable == Running /\ Head(pending).name = "slurmrestd_available"

\* the call that publishes slurm_conf to slurmrestd
PublishCall == Call("set_slurm_config_on_app_relation_data", <<>>)

C35_WitnessDeferred ==
    /\ pc = "charm" /\ exc = "" /\ is_leader /\ slurmrestd
    /\ calls # <<>> /\ calls[Len(calls)] = Call("check_munged", <<"False">>)
    /\ deferred # <<>> /\ deferred[Len(deferred)].name = "slurmrestd_available"
    /\ app_data.slurmrestd.slurm_conf = Unset

\* a unit that is the leader no more has let a re-delivered slurmrestd_available pass
C35_WitnessNonLeader ==
    /\ pc = "charm" /\ exc = "" /\ ~is_leader /\ slurmrestd
    /\ committed.deferred # <<>> /\ committed.deferred[1].name = "slurmrestd_available"
    /\ pending = <<[name |-> "leader_settings_changed"]>>
    /\ deferred = <<>> /\ calls = <<>>

C36_WitnessNotJoined ==
    /\ pc = "charm" /\ exc = "" /\ is_leader /\ ~slurmrestd
    /\ calls # <<>> /\ calls[Len(calls)].cmd = "scontrol"
    /\ slurm_conf_file.ok
    /\ app_data.slurmrestd.slurm_conf = Unset

\* a step of _on_config_changed
ConfigChanged == Running /\ Head(pending).name = "config_changed"

\* the configured default-partition is non-empty and differs from the stored one
PartitionDiffers ==
    /\ is_set("default-partition") /\ config["default-partition"] # ""
    /\ config["default-partition"] # stored.default_partition

\* the configured slurm-conf-parameters is not None and differs from the stored text
ParametersDiffer ==
    /\ is_set("slurm-conf-parameters")
    /\ config["slurm-conf-parameters"] # stored.user_supplied_slurm_conf_params

\* the handler goes on to _on_write_slurm_conf with its event
StartsWritePass == pending' = <<WriteCall(Head(pending))>> \o Tail(pending)

\* C37: _on_config_changed starts a write pass if and only if the configured
\* default-partition (when non-empty) differs from the stored default_partition or
\* the configured slurm-conf-parameters (when not None) differs from the stored
\* user_supplied_slurm_conf_params; the differing values are in the stored state
\* before the pass starts, and nothing else of the two is changed, so the same
\* configuration handled again differs in neither and starts no pass.
C37_ConfigChangedStartsPass ==
    [][ConfigChanged /\ exc' = "" =>
          /\ StartsWritePass = (PartitionDiffers \/ ParametersDiffer)
          /\ ~StartsWritePass => pending' = Tail(pending)
          /\ stored'.default_partition =
                 IF PartitionDiffers THEN config["default-partition"]
                 ELSE stored.default_partition
          /\ stored'.user_supplied_slurm_conf_params =
                 IF ParametersDiffer THEN config["slurm-conf-parameters"]
                 ELSE stored.user_supplied_slurm_conf_params
          /\ ~PartitionDiffers' /\ ~ParametersDiffer'
          /\ calls' = calls /\ slurm_conf_file' = slurm_conf_file]_vars

\* the handler has copied a new default partition and a new parameter text into the
\* stored state and goes on to the write pass
C37_Witness ==
    /\ pc = "charm" /\ exc = ""
    /\ pending # <<>> /\ Head(pending) = WriteCall([name |-> "config_changed"])
    /\ is_set("default-partition") /\ stored.default_partition = config["default-partition"]
    /\ committed.stored.default_partition # stored.default_partition
    /\ is_set("slurm-conf-parameters")
    /\ stored.user_supplied_slurm_conf_params = config["slurm-conf-parameters"]

\* a config-changed event is about to be handled with the configuration that is
\* already in the stored state
C37_WitnessSame ==
    /\ ConfigChanged
    /\ is_set("default-partition") /\ stored.default_partition = config["default-partition"]
    /\ is_set("slurm-conf-parameters")
    /\ stored.user_supplied_slurm_conf_params = config["slurm-conf-parameters"]
    /\ ~PartitionDiffers /\ ~ParametersDiffer

\* a config-changed event delivered again: the event of the hook itself is the last
\* of its dispatch, the deferred ones come before it
Redelivered == ConfigChanged /\ Len(pending) > 1

\* slurm.conf has the first parameter of the configured slurm-conf-parameters
ConfiguredParameterWritten ==
    /\ slurm_conf_file.ok
    /\ \E i \in DOMAIN slurm_conf_file.val :
          slurm_conf_file.val[i] = config["slurm-conf-parameters"][1]

\* C38: a configuration change is not lost by deferral.  When a config-changed event
\* whose write pass was deferred is delivered again on the leader, with slurm
\* installed, and slurm.conf does not have the configured parameters yet, the handler
\* goes on to the write pass that writes them.
C38_ChangeNotLostByDeferral ==
    [][/\ Redelivered /\ is_leader /\ stored.slurm_installed = TRUE
       /\ is_set("slurm-conf-parameters") /\ config["slurm-conf-parameters"] # <<>>
       /\ ~ConfiguredParameterWritten
       => StartsWritePass]_vars

\* the node names that are keys of the nodes mapping of a document
NodeKeys(doc) == Range(keys(doc[<<"nodes">>]))

\* C39: every node passed to _resume_nodes in a write pass is a key of the nodes
\* mapping of the document written in that pass; a stored new node that is in the
\* document no more is dropped from the stored new_nodes without being resumed.
C39_ResumedNodesAreInDocument ==
    [][Assembles /\ exc' = "" =>
          /\ Resumed(NewCalls) \subseteq NodeKeys(slurm_config'.val)
          /\ \A n \in Range(stored.new_nodes) \ NodeKeys(slurm_config'.val) :
                /\ n \notin Range(stored'.new_nodes)
                /\ n \notin Resumed(NewCalls)]_vars

\* slurm.conf has the accounting parameters of a slurmdbd host
AccountingWritten ==
    /\ slurm_conf_file.ok
    /\ \E i \in DOMAIN slurm_conf_file.val : slurm_conf_file.val[i] = "AccountingStorageHost"

\* C40: handling slurmdbd_unavailable changes the stored slurmdbd_host, which
\* becomes '', and the unit status, which becomes that of _check_status, and nothing
\* else: slurmctld is neither stopped nor started, slurm.conf and cgroup.conf are
\* not written, scontrol is not run, the stored new_nodes and the rest of the stored
\* state stay, nothing is published or deferred and no event is emitted.  slurm.conf
\* keeps the accounting parameters it has.
\* The first part states this of the handler in every state the charm reaches, the
\* second of the steps in which the event is handled.
C40_UnavailableFrame ==
    [][/\ \A munged \in BOOLEAN :
             \A self \in {_on_slurmdbd_unavailable(Self, munged)} :
                 /\ self.stored = [stored EXCEPT !.slurmdbd_host = <<>>]
                 /\ self.stored.new_nodes = stored.new_nodes
                 /\ self.slurmctld = slurmctld
                 /\ self.slurm_conf_file = slurm_conf_file
                 /\ self.cgroup_conf_file = cgroup_conf_file
                 /\ self.app_data = app_data
                 /\ self.deferred = deferred
                 /\ \A i \in DOMAIN self.calls :
                       i > Len(calls) => self.calls[i].cmd = "check_munged"
       /\ HandlesSlurmdbd("slurmdbd_unavailable") =>
          /\ stored' = [stored EXCEPT !.slurmdbd_host = <<>>]
          /\ status' \in {"Active", "Blocked: Error installing slurmctld",
                           "Blocked: Error configuring munge key"}
          /\ slurmctld' = slurmctld
          /\ slurm_conf_file' = slurm_conf_file
          /\ cgroup_conf_file' = cgroup_conf_file
          /\ AccountingWritten' = AccountingWritten
          /\ app_data' = app_data
          /\ deferred' = deferred
          /\ slurm_config' = slurm_config
          /\ pending' = Tail(pending)
          /\ \A i \in DOMAIN NewCalls : NewCalls[i].cmd = "check_munged"
          /\ exc' = ""]_vars

\* slurmdbd_unavailable has been handled on a unit whose slurm.conf was written with
\* the accounting parameters and which has a new node stored: the stored host is
\* '', slurm.conf still has the parameters, slurmctld runs, the new node is stored
C40_Witness ==
    /\ pc = "charm" /\ exc = "" /\ pending = <<>>
    /\ ~slurmdbd.joined
    /\ stored.slurmdbd_host = <<>>
    /\ AccountingWritten
    /\ slurmctld = "active"
    /\ status = "Active"
    /\ calls # <<>> /\ calls[Len(calls)] = Call("check_munged", <<"True">>)
    /\ \A i \in DOMAIN calls : calls[i].cmd \notin PassCalls

====
